---- MODULE Spec2Model ----
(***************************************************************************)
(* glFont: the generational arena (types/slotmap.rs), the font collection  *)
(* built on it (font.rs) and the SFNT container parser (font.rs,           *)
(* types/io.rs), as state machines.                                        *)
(***************************************************************************)
EXTENDS Integers, Sequences, FiniteSets, TLC

VARIABLES
    slots,            \* Slotmap::slots : sequence of [kind, content, ver]
    next_free,        \* Slotmap::next_free
    num_elems,        \* Slotmap::num_elems
    status,           \* "ok", or "panic" once an operation has panicked
    ret,              \* what the last operation returned
    overflow_checks,  \* the build: TRUE = integer overflow panics, FALSE = it wraps
    live,             \* history: <<key, value>> of every push not since removed
    removed,          \* history: keys removed by a successful try_pop
    input,            \* open_font: the bytes of the source `input`
    pos,              \* bytes the source has handed out
    reader,           \* the outer ChecksumReader [index, checksum, next_add]
    pc,               \* where open_font is
    num_tables,       \* open_font's local num_tables
    tables,           \* the directory records read: [tag, checksum, offset, length]
    parsed_tables,    \* the tables decoded so far
    checksum_adj,     \* open_font's local checksum_adj
    result            \* what open_font (or verify_header) returned

smVars == <<slots, next_free, num_elems, status, ret, overflow_checks, live, removed>>

fontVars == <<input, pos, reader, pc, num_tables, tables, parsed_tables, checksum_adj, result>>

vars == <<smVars, fontVars>>

-----------------------------------------------------------------------------
(* Bounds of the model *)

\* pushes a behaviour of Spec or CollSpec may make
MaxPush == 3

\* the largest slot index and version of the keys handed to the lookups
MaxKeyIndex == 2
MaxKeyVersion == 2

\* the values stored in the map
NumValues == 2

-----------------------------------------------------------------------------
(* Program constants *)

U16_MAX == 65535
U16_BITS == 16

Values == 1..NumValues

\* a bit pattern that is none of the stored values: what a read of the
\* inactive member of the SlotContent union may yield besides them
Garbage == NumValues + 1

Two16 == 2 ^ U16_BITS

\* the keys the callers of the model pass in
Keys == { i * Two16 + v : i \in 0..MaxKeyIndex, v \in 0..MaxKeyVersion }

-----------------------------------------------------------------------------
(* types/slotmap.rs *)

\* pub type Key = u32: | index (u16) | version (u16) |
KeyOf(index, version) == index * Two16 + version
KeyVersion(key) == key % Two16
KeyIndex(key) == key \div Two16

\* a slot (SlotContent<T>, u16); kind names the union member last written
ValueSlot(value, ver) == [kind |-> "value", content |-> value, ver |-> ver]
FreeSlot(next, ver) == [kind |-> "next_free", content |-> next, ver |-> ver]

\* self.slots[i] with i a 0-based index
SlotAt(self, i) == self.slots[i + 1]

\* `slot.0.value`: reading the union member `value`
ReadValue(slot) == IF slot.kind = "value" THEN {slot.content} ELSE Values \cup {Garbage}

\* `slot.0.next_free`: reading the union member `next_free`
ReadNextFree(slot) == IF slot.kind = "next_free" THEN {slot.content} ELSE 0..U16_MAX

\* Slotmap::new
New == [slots |-> <<FreeSlot(0, 0)>>, next_free |-> 0, num_elems |-> 0]

\* Slotmap::contains panics when it indexes self.slots out of bounds
ContainsPanics(self, key) ==
    /\ ~(Len(self.slots) < KeyIndex(key))
    /\ KeyIndex(key) >= Len(self.slots)

\* Slotmap::contains, where it does not panic
Contains(self, key) ==
    ~(\/ Len(self.slots) < KeyIndex(key)
      \/ SlotAt(self, KeyIndex(key)).ver # KeyVersion(key))

\* PushNewSlot with the key's index taken from next_free instead of num_elems
PushNewSlotKeyOfNextFree(self, value) ==
    [self |-> [slots |-> Append(self.slots, ValueSlot(value, 1)),
               next_free |-> self.num_elems,
               num_elems |-> self.num_elems + 1],
     key |-> KeyOf(self.next_free, 1)]

\* Slotmap::push, the branch that appends a slot
PushNewSlot(self, value) ==
    [self |-> [slots |-> Append(self.slots, ValueSlot(value, 1)),
               next_free |-> self.num_elems,
               num_elems |-> self.num_elems + 1],
     key |-> KeyOf(self.num_elems, 1)]

\* Slotmap::push, the branch that reuses the slot at self.next_free
PushReuse(self, value, nf) ==
    LET index == self.next_free
        avail_ver == SlotAt(self, index).ver + 1
    IN  [self |-> [slots |-> [self.slots EXCEPT ![index + 1] = ValueSlot(value, avail_ver)],
                   next_free |-> nf,
                   num_elems |-> self.num_elems + 1],
         key |-> KeyOf(index, avail_ver)]

\* Slotmap::push panics: the assertion, or self.slots[self.next_free] out of bounds
PushPanics(self) ==
    \/ ~(self.num_elems < U16_MAX - 1)
    \/ self.next_free >= Len(self.slots)

\* Slotmap::push: the set of outcomes [self, key]
PushOutcomes(self, value) ==
    IF SlotAt(self, self.next_free).ver % 2 = 1
    THEN {PushNewSlot(self, value)}
    ELSE {PushReuse(self, value, nf) : nf \in ReadNextFree(SlotAt(self, self.next_free))}

\* Slotmap::try_pop: `version + 1` overflows
TryPopOverflows(key) == KeyVersion(key) + 1 > U16_MAX

\* Slotmap::try_pop, the state after a key that validates
TryPopSelf(self, key) ==
    [self EXCEPT !.slots[KeyIndex(key) + 1] =
        FreeSlot(self.next_free, (KeyVersion(key) + 1) % Two16)]

Self == [slots |-> slots, next_free |-> next_free, num_elems |-> num_elems]

SetSelf(s) ==
    /\ slots' = s.slots
    /\ next_free' = s.next_free
    /\ num_elems' = s.num_elems

Panic(op, key) ==
    /\ status' = "panic"
    /\ ret' = [op |-> op, key |-> key, res |-> "panic", val |-> 0]
    /\ UNCHANGED <<slots, next_free, num_elems, overflow_checks, live, removed>>

Returned(op, key, res, val) ==
    ret' = [op |-> op, key |-> key, res |-> res, val |-> val]

LiveKeys == { p[1] : p \in live }

\* the state after Slotmap::new; the build is either one
SmInit ==
    /\ slots = New.slots
    /\ next_free = New.next_free
    /\ num_elems = New.num_elems
    /\ status = "ok"
    /\ ret = [op |-> "new", key |-> 0, res |-> "ok", val |-> 0]
    /\ overflow_checks \in BOOLEAN
    /\ live = {}
    /\ removed = {}
    /\ input = <<>>
    /\ pos = 0
    /\ reader = [index |-> 0, checksum |-> <<0, 0>>, next_add |-> <<0, 0>>]
    /\ pc = "idle"
    /\ num_tables = 0
    /\ tables = <<>>
    /\ parsed_tables = <<>>
    /\ checksum_adj = <<0, 0>>
    /\ result = [kind |-> "none", what |-> "", needed |-> 0, value |-> 0]

\* one call of Slotmap::push(value)
PushStep(value) ==
    /\ status = "ok"
    /\ IF PushPanics(Self)
       THEN Panic("push", 0)
       ELSE \E o \in PushOutcomes(Self, value) :
              /\ SetSelf(o.self)
              /\ Returned("push", o.key, "key", value)
              /\ live' = live \cup {<<o.key, value>>}
              /\ UNCHANGED <<status, overflow_checks, removed>>

\* one call of Slotmap::contains(key)
ContainsStep(key) ==
    /\ status = "ok"
    /\ IF ContainsPanics(Self, key)
       THEN Panic("contains", key)
       ELSE /\ Returned("contains", key, IF Contains(Self, key) THEN "true" ELSE "false", 0)
            /\ UNCHANGED <<slots, next_free, num_elems, status, overflow_checks, live, removed>>

\* one call of Slotmap::get(key) or Slotmap::get_mut(key), named by op
GetStep(op, key) ==
    /\ status = "ok"
    /\ IF ContainsPanics(Self, key)
       THEN Panic(op, key)
       ELSE /\ IF ~Contains(Self, key)
               THEN Returned(op, key, "None", 0)
               ELSE \E v \in ReadValue(SlotAt(Self, KeyIndex(key))) :
                      Returned(op, key, "Some", v)
            /\ UNCHANGED <<slots, next_free, num_elems, status, overflow_checks, live, removed>>

\* one call of Slotmap::try_pop(key); rem is the history of removed keys after
\* a removal
TryPopStep(key, rem) ==
    /\ status = "ok"
    /\ IF ContainsPanics(Self, key)
       THEN Panic("try_pop", key)
       ELSE IF ~Contains(Self, key)
       THEN /\ Returned("try_pop", key, "None", 0)
            /\ UNCHANGED <<slots, next_free, num_elems, status, overflow_checks, live, removed>>
       ELSE IF TryPopOverflows(key) /\ overflow_checks
       THEN Panic("try_pop", key)
       ELSE \E v \in ReadValue(SlotAt(Self, KeyIndex(key))) :
              /\ SetSelf(TryPopSelf(Self, key))
              /\ Returned("try_pop", key, "Some", v)
              /\ live' = { p \in live : p[1] # key }
              /\ removed' = IF key \in LiveKeys THEN rem ELSE removed
              /\ UNCHANGED <<status, overflow_checks>>

\* the slots whose content Slotmap::iter, iter_mut and kv_iter read through
\* the member `value`: those with an odd version (0-based indices)
IterReads(self) == { i \in 0..(Len(self.slots) - 1) : SlotAt(self, i).ver % 2 = 1 }

\* the slots whose content Drop::drop drops through the member `value`: those
\* with `*version % 2 == 0` (0-based indices)
DropReads(self) == { i \in 0..(Len(self.slots) - 1) : SlotAt(self, i).ver % 2 = 0 }

\* the map goes out of scope: Drop::drop runs and the map is gone
DropStep ==
    /\ status = "ok"
    /\ status' = "dropped"
    /\ Returned("drop", 0, "ok", 0)
    /\ UNCHANGED <<slots, next_free, num_elems, overflow_checks, live, removed>>

Push(value) == num_elems < MaxPush /\ PushStep(value) /\ UNCHANGED fontVars
Drop == DropStep /\ UNCHANGED fontVars
ContainsKey(key) == ContainsStep(key) /\ UNCHANGED fontVars
Get(key) == GetStep("get", key) /\ UNCHANGED fontVars
GetMut(key) == GetStep("get_mut", key) /\ UNCHANGED fontVars
TryPop(key) == TryPopStep(key, removed \cup {key}) /\ UNCHANGED fontVars

Init == SmInit

Next ==
    \/ \E value \in Values : Push(value)
    \/ \E key \in Keys : ContainsKey(key)
    \/ \E key \in Keys : Get(key)
    \/ \E key \in Keys : GetMut(key)
    \/ \E key \in Keys : TryPop(key)
    \/ Drop

Spec == Init /\ [][Next]_vars

-----------------------------------------------------------------------------
(* A caller that keeps one value in the map: it pushes when the map holds   *)
(* none of its values and removes the one it holds.                         *)

WrapPush == live = {} /\ PushStep(1) /\ UNCHANGED fontVars

WrapTryPop ==
    /\ \E key \in LiveKeys : TryPopStep(key, IF removed = {} THEN {key} ELSE removed)
    /\ UNCHANGED fontVars

WrapNext == WrapPush \/ WrapTryPop

WrapSpec == Init /\ [][WrapNext]_vars

-----------------------------------------------------------------------------
(* font.rs: Collection, a Slotmap of fonts in the field `loaded`; the fonts *)
(* are the values of the map                                                *)

CollInit == SmInit

\* Collection::add_loaded(font)
AddLoaded(font) == num_elems < MaxPush /\ PushStep(font) /\ UNCHANGED fontVars

\* Collection::get(key): self.loaded.get(key).expect("Invalid Key")
CollectionGet(key) ==
    /\ status = "ok"
    /\ IF ContainsPanics(Self, key) \/ ~Contains(Self, key)
       THEN Panic("Collection::get", key)
       ELSE /\ \E v \in ReadValue(SlotAt(Self, KeyIndex(key))) :
                 Returned("Collection::get", key, "ref", v)
            /\ UNCHANGED <<slots, next_free, num_elems, status, overflow_checks, live, removed>>
    /\ UNCHANGED fontVars

CollNext ==
    \/ \E font \in Values : AddLoaded(font)
    \/ \E key \in Keys : CollectionGet(key)

CollSpec == CollInit /\ [][CollNext]_vars

-----------------------------------------------------------------------------
(* Claims about the Slotmap and the Collection *)

\* the key names a slot of the vector and carries the version stored in it
Validates(key) ==
    /\ KeyIndex(key) < Len(slots)
    /\ slots[KeyIndex(key) + 1].ver = KeyVersion(key)

\* C1: get(k) returns a value only when k's version is the one stored in slot
\* index(k), and a key removed by a successful try_pop never validates again:
\* contains(k) is false and get(k) is None in every later state.
C1_RemovedKeyStaysInvalid ==
    /\ (ret.op = "get" /\ ret.res = "Some") => Validates(ret.key)
    /\ status = "ok" =>
          \A k \in removed : ~ContainsPanics(Self, k) /\ ~Contains(Self, k)

\* C2: every key returned by a push and not since removed validates, and get
\* returns exactly the value that push was given.
C2_KeysStable ==
    status = "ok" =>
        \A p \in live :
            /\ ~ContainsPanics(Self, p[1])
            /\ Contains(Self, p[1])
            /\ ReadValue(SlotAt(Self, KeyIndex(p[1]))) = {p[2]}

\* C3: on a Collection that has seen only add_loaded, get(k) returns the font
\* given to the add_loaded that returned k, and no add_loaded returns a key
\* that an earlier one returned.
C3_GetReturnsFont ==
    /\ status = "ok" =>
          \A p \in live :
              /\ ~ContainsPanics(Self, p[1])
              /\ Contains(Self, p[1])
              /\ ReadValue(SlotAt(Self, KeyIndex(p[1]))) = {p[2]}
    /\ (ret.op = "Collection::get" /\ ret.key \in LiveKeys) =>
          (ret.res = "ref" /\ <<ret.key, ret.val>> \in live)

C3_KeysDistinct ==
    \A font \in Values : (AddLoaded(font) /\ status' = "ok") => ret'.key \notin LiveKeys

C3_KeyIdentifiesOneFont == [](C3_GetReturnsFont) /\ [][C3_KeysDistinct]_vars

\* C3 witness: two fonts are stored and get has returned the second
C3_Witness ==
    /\ Cardinality(LiveKeys) >= 2
    /\ ret.op = "Collection::get"
    /\ ret.res = "ref"
    /\ KeyIndex(ret.key) = 1
    /\ ret.val = NumValues

\* C4: Collection::get panics for every key that add_loaded did not return,
\* the empty collection included.
C4_GetPanicsOnInvalidKey ==
    (ret.op = "Collection::get" /\ ret.key \notin LiveKeys) => ret.res = "panic"

\* C5: contains, get and get_mut check the index range and the version, and
\* answer false / None when either check fails; they never panic.
C5_LookupsValidate ==
    ret.op \in {"contains", "get", "get_mut"} =>
        /\ ret.res # "panic"
        /\ ret.res \in {"true", "Some"} <=> Validates(ret.key)

\* C6: try_pop with a key that does not validate returns None and changes
\* nothing; with a key that validates it returns the stored value and leaves
\* every other live key valid, with its value.
C6_TryPopStep(key) ==
    /\ ~Validates(key) =>
          /\ ret'.res = "None"
          /\ UNCHANGED <<slots, next_free, num_elems>>
    /\ Validates(key) =>
          /\ ret'.res = "Some"
          /\ ret'.val \in ReadValue(slots[KeyIndex(key) + 1])
          /\ \A p \in live :
                p[1] # key /\ Validates(p[1]) =>
                    /\ Validates(p[1])'
                    /\ slots'[KeyIndex(p[1]) + 1] = slots[KeyIndex(p[1]) + 1]

C6_TryPopFrame == [][\A key \in Keys : TryPop(key) => C6_TryPopStep(key)]_vars

-----------------------------------------------------------------------------
(* types/io.rs: the byte source and the ChecksumReader *)

\* a u32 is the pair <<high 16 bits, low 16 bits>>
U32(hi, lo) == <<hi, lo>>

\* u32::overflowing_add(a, b).0
AddU32(a, b) ==
    U32((a[1] + b[1] + (a[2] + b[2]) \div Two16) % Two16, (a[2] + b[2]) % Two16)

\* u32::overflowing_sub(a, b).0
SubU32(a, b) ==
    U32((a[1] - b[1] - (IF a[2] < b[2] THEN 1 ELSE 0) + Two16) % Two16,
        (a[2] - b[2] + Two16) % Two16)

\* (a << 8) | u32::from(b) for a byte b
ShiftInU32(a, b) ==
    U32((a[1] % 256) * 256 + a[2] \div 256, (a[2] % 256) * 256 + b)

\* a u32 as usize
AsUsize(a) == a[1] * Two16 + a[2]

ZeroU32 == U32(0, 0)

Min(a, b) == IF a < b THEN a ELSE b

\* big-endian value of a byte sequence (T::to_be of the bytes read)
RECURSIVE BE(_)
BE(bytes) == IF bytes = <<>> THEN 0 ELSE BE(SubSeq(bytes, 1, Len(bytes) - 1)) * 256 + bytes[Len(bytes)]

\* the n big-endian bytes of v
RECURSIVE Bytes(_, _)
Bytes(v, n) == IF n = 0 THEN <<>> ELSE Append(Bytes(v \div 256, n - 1), v % 256)

\* impl CoreRead for T: std::io::Read: read(buf) hands out the next
\* min(buf.len(), bytes left) bytes of the source
SourceBytes(p, n) == SubSeq(input, p + 1, Min(p + n, Len(input)))

\* ChecksumReader::new
NewChecksumReader == [index |-> 0, checksum |-> ZeroU32, next_add |-> ZeroU32]

\* ChecksumReader::read, the closure's loop body for one byte
CsByte(r, b) ==
    LET na == ShiftInU32(r.next_add, b)
    IN  [index |-> r.index + 1,
         next_add |-> na,
         checksum |-> IF (r.index + 1) % 4 = 0 THEN AddU32(r.checksum, na) ELSE r.checksum]

\* ChecksumReader::read, the closure over the bytes read
RECURSIVE CsBytes(_, _)
CsBytes(r, bytes) == IF bytes = <<>> THEN r ELSE CsBytes(CsByte(r, Head(bytes)), Tail(bytes))

\* a reading position: the source cursor and the ChecksumReaders stacked on the
\* source, the outermost first
At(p, readers) == [pos |-> p, readers |-> readers]

\* the readers after `bytes` have passed through them: a ChecksumReader reads
\* from the reader it wraps, so every reader of the stack sees the bytes
Through(readers, bytes) ==
    IF Len(readers) = 1 THEN <<CsBytes(readers[1], bytes)>>
    ELSE <<CsBytes(readers[1], bytes), CsBytes(readers[2], bytes)>>

\* read(buf) with buf.len() = n through the innermost reader of st
Read(st, n) ==
    LET bytes == SourceBytes(st.pos, n)
    IN  [st |-> At(st.pos + Len(bytes), Through(st.readers, bytes)),
         bytes |-> bytes]

\* CoreRead::read_int::<u32>()
ReadU32(st) ==
    LET rd == Read(st, 4)
    IN  [st |-> rd.st,
         ok |-> Len(rd.bytes) = 4,
         value |-> IF Len(rd.bytes) = 4
                   THEN U32(BE(SubSeq(rd.bytes, 1, 2)), BE(SubSeq(rd.bytes, 3, 4)))
                   ELSE ZeroU32,
         needed |-> 4 - Len(rd.bytes)]

\* CoreRead::read_int::<T>() with size_of::<T>() = size <= 2
ReadInt(st, size) ==
    LET rd == Read(st, size)
    IN  [st |-> rd.st,
         ok |-> Len(rd.bytes) = size,
         value |-> BE(rd.bytes),
         needed |-> size - Len(rd.bytes)]

\* a buffer of n zero bytes after read(buf) has put `bytes` at its start
Buffer(bytes, n) == [i \in 1..n |-> IF i <= Len(bytes) THEN bytes[i] ELSE 0]

-----------------------------------------------------------------------------
(* font.rs: verify_header *)

Res(kind, what, needed, value) == [kind |-> kind, what |-> what, needed |-> needed, value |-> value]

\* ParseError::Io(CoreReadError::UnexpectedEnd(needed)), what `?` makes of a
\* failed read_int
IoUnexpectedEnd(needed) == Res("Io", "UnexpectedEnd", needed, 0)

\* u16::ilog2 for n > 0
RECURSIVE ILog2(_)
ILog2(n) == IF n <= 1 THEN 0 ELSE 1 + ILog2(n \div 2)

\* the sfnt version tag verify_header accepts
SFNT_VERSION == <<0, 1, 0, 0>>

\* 2_u16.pow(num_tables.ilog2()) * 16 before it is cut to 16 bits
SearchRangeOf(n_tables) == (2 ^ ILog2(n_tables)) * 16

\* verify_header from the check of range_shift on; rs is the read of
\* range_shift, n_tables and sr_value the locals num_tables and search_range
VerifyRangeShift(n_tables, sr_value, rs) ==
    IF ~rs.ok THEN [st |-> rs.st, res |-> IoUnexpectedEnd(rs.needed)]
    ELSE IF rs.value # (n_tables * 16 - sr_value) % Two16
    THEN [st |-> rs.st, res |-> Res("Parsing", "RangeShift", 0, rs.value)]
    ELSE [st |-> rs.st, res |-> Res("Ok", "", 0, n_tables)]

\* verify_header from the check of entry_selector on; es is its read
VerifyEntrySelector(n_tables, sr_value, es) ==
    IF ~es.ok THEN [st |-> es.st, res |-> IoUnexpectedEnd(es.needed)]
    ELSE IF es.value # ILog2(n_tables)
    THEN [st |-> es.st, res |-> Res("Parsing", "EntrySelector", 0, es.value)]
    ELSE VerifyRangeShift(n_tables, sr_value, ReadInt(es.st, 2))

\* verify_header from the check of search_range on; sr is its read
VerifyGeometry(n_tables, sr, checks) ==
    IF ~sr.ok THEN [st |-> sr.st, res |-> IoUnexpectedEnd(sr.needed)]
    ELSE IF n_tables = 0 THEN [st |-> sr.st, res |-> Res("panic", "ilog2", 0, 0)]
    ELSE IF checks /\ SearchRangeOf(n_tables) > U16_MAX
    THEN [st |-> sr.st, res |-> Res("panic", "overflow", 0, 0)]
    ELSE IF sr.value # SearchRangeOf(n_tables) % Two16
    THEN [st |-> sr.st, res |-> Res("Parsing", "SearchRange", 0, sr.value)]
    ELSE VerifyEntrySelector(n_tables, sr.value, ReadInt(sr.st, 2))

\* verify_header from the read of num_tables on; nt is that read
VerifyNumTables(nt, checks) ==
    IF ~nt.ok THEN [st |-> nt.st, res |-> IoUnexpectedEnd(nt.needed)]
    ELSE VerifyGeometry(nt.value, ReadInt(nt.st, 2), checks)

\* verify_header from the check of the version on; version is the read into
\* the zeroed buffer of 4 bytes, whose count the code does not look at
VerifyVersion(version, checks) ==
    IF Buffer(version.bytes, 4) # SFNT_VERSION
    THEN [st |-> version.st, res |-> Res("InvalidSfntVersion", "", 0, 0)]
    ELSE VerifyNumTables(ReadInt(version.st, 2), checks)

\* verify_header(input): the position it leaves the reader at and its result
verify_header(st, checks) == VerifyVersion(Read(st, 4), checks)

\* the slotmap is not part of a parse
SmIdle ==
    /\ slots = New.slots
    /\ next_free = New.next_free
    /\ num_elems = New.num_elems
    /\ status = "ok"
    /\ ret = [op |-> "new", key |-> 0, res |-> "ok", val |-> 0]
    /\ overflow_checks \in BOOLEAN
    /\ live = {}
    /\ removed = {}

\* open_font(allocator, input) is entered with the source `file`
OpenFont(file) ==
    /\ input = file
    /\ pos = 0
    /\ reader = NewChecksumReader
    /\ pc = "verify_header"
    /\ num_tables = 0
    /\ tables = <<>>
    /\ parsed_tables = <<>>
    /\ checksum_adj = ZeroU32
    /\ result = Res("none", "", 0, 0)

\* open_font, line 93: let num_tables = verify_header(&mut reader)?
VerifyHeader ==
    /\ pc = "verify_header"
    /\ \E out \in {verify_header(At(pos, <<reader>>), overflow_checks)} :
         /\ pos' = out.st.pos
         /\ reader' = out.st.readers[1]
         /\ result' = IF out.res.kind = "Ok" THEN result ELSE out.res
         /\ num_tables' = IF out.res.kind = "Ok" THEN out.res.value ELSE num_tables
         /\ pc' = IF out.res.kind = "Ok" THEN "directory" ELSE "failed"
    /\ UNCHANGED <<input, tables, parsed_tables, checksum_adj>>
    /\ UNCHANGED smVars

-----------------------------------------------------------------------------
(* font.rs: open_font after the header; types/io.rs: skip and finish *)

\* 0xb1b0_afba_u32
CHECKSUM_MAGIC == U32(45488, 44986)

\* b"head"
TAG_HEAD == <<104, 101, 97, 100>>

\* a tag none of the decoders of tables/mod.rs is registered for: b"zzzz"
TAG_UNKNOWN == <<122, 122, 122, 122>>

\* `a - b` on usize where the code skips: [panics, count]. A difference below
\* zero panics in a build with overflow checks; without them it wraps to a
\* count larger than any source, which skip ends at the end of the source.
UsizeSub(a, b, checks) ==
    IF a >= b THEN [panics |-> FALSE, count |-> a - b]
    ELSE [panics |-> checks, count |-> Len(input)]

\* CoreRead::skip(n): reads byte by byte until n bytes are read or the source
\* ends, and returns Ok either way
Skip(st, n) == Read(st, n).st

\* what CoreRead::skip(n) returns: Ok(total), the count of the bytes read
SkipReturns(st, n) == [kind |-> "Ok", total |-> Skip(st, n).pos - st.pos]

\* the loop of ChecksumReader::finish over the garbage buffer
RECURSIVE ShiftAll(_, _)
ShiftAll(na, bytes) == IF bytes = <<>> THEN na ELSE ShiftAll(ShiftInU32(na, Head(bytes)), Tail(bytes))

\* self.index.next_multiple_of(4) - self.index
Remain(r) == ((r.index + 3) \div 4) * 4 - r.index

\* ChecksumReader::finish after its read; rd is the read of the innermost
\* reader into garbage[..remain]
FinishRead(rd, remain) ==
    [st |-> rd.st,
     checksum |->
        IF remain # 0
        THEN AddU32(rd.st.readers[Len(rd.st.readers)].checksum,
                    ShiftAll(rd.st.readers[Len(rd.st.readers)].next_add,
                             Buffer(rd.bytes, remain)))
        ELSE rd.st.readers[Len(rd.st.readers)].checksum]

\* ChecksumReader::finish of the innermost reader of st: the position it
\* leaves and the checksum it returns
Finish(st) ==
    FinishRead(Read(st, Remain(st.readers[Len(st.readers)])),
               Remain(st.readers[Len(st.readers)]))

\* The decoder of `head` that font.rs calls reads from the reader and keeps
\* checksum_adjustment. It reads the 54 bytes of the table field by field and
\* checks version 1.0, the magic number 0x5F0F3CF5, unitsPerEm in [16, 16384],
\* indexToLocFormat in {0, 1} and glyphDataFormat = 0; each check that fails
\* gives a Parsing error naming the field.
HEAD_MAGIC == U32(24335, 15605)

\* the u32 at bytes i..i+3 of a byte sequence
WordAt(bytes, i) == U32(BE(SubSeq(bytes, i, i + 1)), BE(SubSeq(bytes, i + 2, i + 3)))

\* the bytes missing from the field that reads of the sizes `sizes`, one
\* after the other, stop in when the source gives `got` bytes
RECURSIVE MissingOf(_, _)
MissingOf(got, sizes) ==
    IF got >= Head(sizes) THEN MissingOf(got - Head(sizes), Tail(sizes)) ELSE Head(sizes) - got

HeadFailed(rd, res) == [st |-> rd.st, res |-> res, table |-> <<>>]

HeadShort(rd, sizes) == HeadFailed(rd, IoUnexpectedEnd(MissingOf(Len(rd.bytes), sizes)))

\* head: glyphDataFormat; rd is its read
HeadGlyphDataFormat(adjustment, units, loc, rd) ==
    IF Len(rd.bytes) # 2 THEN HeadShort(rd, <<2>>)
    ELSE IF BE(rd.bytes) # 0
    THEN HeadFailed(rd, Res("Parsing", "head::glyphDataFormat", 0, BE(rd.bytes)))
    ELSE [st |-> rd.st, res |-> Res("Ok", "head", 0, 0),
          table |-> [tag |-> "Head", checksum_adjustment |-> adjustment,
                     units_per_em |-> units, long_offset |-> loc = 1]]

\* head: indexToLocFormat; rd is its read
HeadIndexToLocFormat(adjustment, units, rd) ==
    IF Len(rd.bytes) # 2 THEN HeadShort(rd, <<2>>)
    ELSE IF BE(rd.bytes) > 1
    THEN HeadFailed(rd, Res("Parsing", "head::indexToLocFormat", 0, BE(rd.bytes)))
    ELSE HeadGlyphDataFormat(adjustment, units, BE(rd.bytes), Read(rd.st, 2))

\* head: created, modified, xMin, yMin, xMax, yMax, macStyle, lowestRecPPEM,
\* fontDirectionHint; rd is the read of the 30 bytes
HeadTimesToHint(adjustment, units, rd) ==
    IF Len(rd.bytes) # 30 THEN HeadShort(rd, <<8, 8, 2, 2, 2, 2, 2, 2, 2>>)
    ELSE HeadIndexToLocFormat(adjustment, units, Read(rd.st, 2))

\* head: flags, unitsPerEm; rd is the read of the 4 bytes
HeadUnitsPerEm(adjustment, rd) ==
    IF Len(rd.bytes) # 4 THEN HeadShort(rd, <<2, 2>>)
    ELSE IF BE(SubSeq(rd.bytes, 3, 4)) < 16 \/ BE(SubSeq(rd.bytes, 3, 4)) > 16384
    THEN HeadFailed(rd, Res("Parsing", "head::unitsPerEm", 0, BE(SubSeq(rd.bytes, 3, 4))))
    ELSE HeadTimesToHint(adjustment, BE(SubSeq(rd.bytes, 3, 4)), Read(rd.st, 30))

\* head: fontRevision, checksumAdjustment, magicNumber; rd is the read of the
\* 12 bytes
HeadMagic(rd) ==
    IF Len(rd.bytes) # 12 THEN HeadShort(rd, <<4, 4, 4>>)
    ELSE IF WordAt(rd.bytes, 9) # HEAD_MAGIC
    THEN HeadFailed(rd, Res("Parsing", "head::magic", 0, 0))
    ELSE HeadUnitsPerEm(WordAt(rd.bytes, 5), Read(rd.st, 4))

\* head: majorVersion, minorVersion; rd is the read of the 4 bytes
HeadVersion(rd) ==
    IF Len(rd.bytes) # 4 THEN HeadShort(rd, <<2, 2>>)
    ELSE IF BE(SubSeq(rd.bytes, 1, 2)) # 1 \/ BE(SubSeq(rd.bytes, 3, 4)) # 0
    THEN HeadFailed(rd, Res("Parsing", "head::version", 0, BE(SubSeq(rd.bytes, 1, 2))))
    ELSE HeadMagic(Read(rd.st, 12))

\* the decoder of head: [st, res, table]
HeadParse(st) == HeadVersion(Read(st, 4))

-----------------------------------------------------------------------------
(* tables/name.rs *)

\* b"name"
TAG_NAME == <<110, 97, 109, 101>>

\* char::REPLACEMENT_CHARACTER
REPLACEMENT_CHARACTER == 65533

Max(a, b) == IF a > b THEN a ELSE b

\* the machine the build runs on: overflow checks on or off, the byte order,
\* and the address (mod 2) the allocator gives a block of alignment 1
Hosts == [checks : BOOLEAN, little : BOOLEAN, base : {0, 1}]

\* the u16 units from_utf16 decodes: the big-endian pairs of the bytes
Units(bytes) == [i \in 1..(Len(bytes) \div 2) |-> bytes[2 * i - 1] * 256 + bytes[2 * i]]

\* the bytes after `*v = v.swap_bytes()` on every unit
SwapBytes(bytes) == [i \in 1..Len(bytes) |-> IF i % 2 = 1 THEN bytes[i + 1] ELSE bytes[i - 1]]

\* char::decode_utf16(..).map(|r| r.unwrap_or(REPLACEMENT_CHARACTER)): the
\* chars of the string
RECURSIVE DecodeUtf16(_)
DecodeUtf16(units) ==
    IF units = <<>> THEN <<>>
    ELSE IF units[1] < 55296 \/ units[1] > 57343
    THEN <<units[1]>> \o DecodeUtf16(Tail(units))
    ELSE IF units[1] <= 56319 /\ Len(units) >= 2 /\ units[2] >= 56320 /\ units[2] <= 57343
    THEN <<65536 + (units[1] - 55296) * 1024 + (units[2] - 56320)>>
             \o DecodeUtf16(SubSeq(units, 3, Len(units)))
    ELSE <<REPLACEMENT_CHARACTER>> \o DecodeUtf16(Tail(units))

\* impl From<u16> for RecordType
RecordTypeFrom(value) ==
    IF value = 15 \/ (value >= 26 /\ value < 256) THEN [kind |-> "_Reserved", id |-> 0]
    ELSE IF value < 26 THEN [kind |-> "Named", id |-> value]
    ELSE IF value <= 32767 THEN [kind |-> "FontSpecific", id |-> value]
    ELSE [kind |-> "unreachable", id |-> value]

\* Record::from_utf16 panics: bytemuck::try_cast_slice_mut fails on a slice
\* that is not 2-aligned or of odd length
FromUtf16Panics(bytes, address) == address % 2 # 0 \/ Len(bytes) % 2 # 0

\* the match of Record::from_bytes: (0, 3..4, _) | (3, 1 | 10, _); the
\* range 3..4 excludes 4
IsUtf16(platform_id, encoding_id, language_id) ==
    \/ platform_id = 0 /\ encoding_id >= 3 /\ encoding_id < 4
    \/ platform_id = 3 /\ encoding_id \in {1, 10}

\* Record::from_bytes on the bytes at `address`: "" or the panic, and the
\* record
from_bytes(platform_id, encoding_id, language_id, name, bytes, address) ==
    IF ~IsUtf16(platform_id, encoding_id, language_id)
    THEN [panic |-> "Unrecognised record!", record |-> <<>>]
    ELSE IF FromUtf16Panics(bytes, address)
    THEN [panic |-> "Invalid input to Record::from_bytes", record |-> <<>>]
    ELSE [panic |-> "", record |-> [name |-> name, string |-> DecodeUtf16(Units(bytes))]]

NameFailed(st, res) == [st |-> st, res |-> res, table |-> <<>>]

\* the storage area after from_utf16 has run on storage_area[begin..end]
Swapped(storage, begin, end, host) ==
    IF host.little
    THEN SubSeq(storage, 1, begin) \o SwapBytes(SubSeq(storage, begin + 1, end))
             \o SubSeq(storage, end + 1, Len(storage))
    ELSE storage

\* name::parse_table, lines 218-232: the records made from records_info
RECURSIVE NameBuild(_, _, _, _, _)
RECURSIVE NameBuilt(_, _, _, _, _, _)
NameBuild(st, infos, storage, host, records) ==
    IF infos = <<>>
    THEN [st |-> st, res |-> Res("Ok", "name", 0, 0),
          table |-> [tag |-> "Name", records |-> records]]
    ELSE IF RecordTypeFrom(Head(infos).name).kind = "unreachable"
    THEN NameFailed(st, Res("panic", "Invalid Name ID", 0, 0))
    ELSE NameBuilt(st, infos, storage, host, records,
                   from_bytes(Head(infos).platform, Head(infos).encoding, Head(infos).language,
                              RecordTypeFrom(Head(infos).name),
                              SubSeq(storage, Head(infos).begin + 1, Head(infos).end),
                              host.base + Head(infos).begin))

NameBuilt(st, infos, storage, host, records, made) ==
    IF made.panic # "" THEN NameFailed(st, Res("panic", made.panic, 0, 0))
    ELSE NameBuild(st, Tail(infos), Swapped(storage, Head(infos).begin, Head(infos).end, host),
                   host, Append(records, made.record))

\* name::parse_table, lines 208-216: rd is the read of the storage area
NameStorage(h, rd, infos, area) ==
    IF Len(rd.bytes) < area
    THEN NameFailed(rd.st, Res("UnexpectedEop", "name::storage_area", area - Len(rd.bytes), 0))
    ELSE NameBuild(rd.st, infos, rd.bytes, h.host, <<>>)

\* name::parse_table, line 205: reader_actual.skip(storage_offset - current_index)
NameSkip(h, st, gap, infos, area) ==
    IF gap.panics THEN NameFailed(st, Res("panic", "overflow", 0, 0))
    ELSE NameStorage(h, Read(Skip(st, gap.count), area), infos, area)

\* name::parse_table, lines 197-210; st.pos - h.start is reader.finish()
NameStorageAt(h, st, infos, area) ==
    IF h.storage_offset # st.pos - h.start
    THEN NameSkip(h, st, UsizeSub(h.storage_offset, st.pos - h.start, h.host.checks), infos, area)
    ELSE NameStorage(h, Read(st, area), infos, area)

\* name::parse_table, lines 190-194: the LangTagRecords; rd is the read of one
RECURSIVE NameTagRecords(_, _, _, _, _)
NameTagRecords(h, rd, left, infos, area) ==
    IF Len(rd.bytes) # 4 THEN NameFailed(rd.st, IoUnexpectedEnd(MissingOf(Len(rd.bytes), <<2, 2>>)))
    ELSE IF left = 1
    THEN NameStorageAt(h, rd.st, infos,
                       Max(area, BE(SubSeq(rd.bytes, 3, 4)) + BE(SubSeq(rd.bytes, 1, 2))))
    ELSE NameTagRecords(h, Read(rd.st, 4), left - 1, infos,
                        Max(area, BE(SubSeq(rd.bytes, 3, 4)) + BE(SubSeq(rd.bytes, 1, 2))))

\* name::parse_table, lines 188-189: n is the read of num_tag_records
NameTagCount(h, n, infos, area) ==
    IF ~n.ok THEN NameFailed(n.st, IoUnexpectedEnd(n.needed))
    ELSE IF n.value = 0 THEN NameStorageAt(h, n.st, infos, area)
    ELSE NameTagRecords(h, Read(n.st, 4), n.value, infos, area)

\* name::parse_table, line 188
NameLangTags(h, st, infos, area) ==
    IF h.version = 1 THEN NameTagCount(h, ReadInt(st, 2), infos, area)
    ELSE NameStorageAt(h, st, infos, area)

\* name::parse_table, lines 170-185: the NameRecords; rd is the read of the
\* six fields of one
RECURSIVE NameRecords(_, _, _, _, _)
NameRecords(h, rd, left, infos, area) ==
    IF Len(rd.bytes) # 12
    THEN NameFailed(rd.st, IoUnexpectedEnd(MissingOf(Len(rd.bytes), <<2, 2, 2, 2, 2, 2>>)))
    ELSE IF left = 1
    THEN NameLangTags(h, rd.st,
             Append(infos, [platform |-> BE(SubSeq(rd.bytes, 1, 2)),
                            encoding |-> BE(SubSeq(rd.bytes, 3, 4)),
                            language |-> BE(SubSeq(rd.bytes, 5, 6)),
                            name |-> BE(SubSeq(rd.bytes, 7, 8)),
                            begin |-> BE(SubSeq(rd.bytes, 11, 12)),
                            end |-> BE(SubSeq(rd.bytes, 11, 12)) + BE(SubSeq(rd.bytes, 9, 10))]),
             Max(area, BE(SubSeq(rd.bytes, 11, 12)) + BE(SubSeq(rd.bytes, 9, 10))))
    ELSE NameRecords(h, Read(rd.st, 12), left - 1,
             Append(infos, [platform |-> BE(SubSeq(rd.bytes, 1, 2)),
                            encoding |-> BE(SubSeq(rd.bytes, 3, 4)),
                            language |-> BE(SubSeq(rd.bytes, 5, 6)),
                            name |-> BE(SubSeq(rd.bytes, 7, 8)),
                            begin |-> BE(SubSeq(rd.bytes, 11, 12)),
                            end |-> BE(SubSeq(rd.bytes, 11, 12)) + BE(SubSeq(rd.bytes, 9, 10))]),
             Max(area, BE(SubSeq(rd.bytes, 11, 12)) + BE(SubSeq(rd.bytes, 9, 10))))

\* name::parse_table, lines 160-169: rd is the read of version, num_records
\* and storage_offset; start is where the reader of the table stood
NameHeader(start, rd, host) ==
    IF Len(rd.bytes) # 6
    THEN NameFailed(rd.st, IoUnexpectedEnd(MissingOf(Len(rd.bytes), <<2, 2, 2>>)))
    ELSE IF BE(SubSeq(rd.bytes, 3, 4)) = 0
    THEN NameLangTags([version |-> BE(SubSeq(rd.bytes, 1, 2)),
                       storage_offset |-> BE(SubSeq(rd.bytes, 5, 6)),
                       start |-> start, host |-> host],
                      rd.st, <<>>, 0)
    ELSE NameRecords([version |-> BE(SubSeq(rd.bytes, 1, 2)),
                      storage_offset |-> BE(SubSeq(rd.bytes, 5, 6)),
                      start |-> start, host |-> host],
                     Read(rd.st, 12), BE(SubSeq(rd.bytes, 3, 4)), <<>>, 0)

\* name::parse_table: [st, res, table]
NameParse(st, host) == NameHeader(st.pos, Read(st, 6), host)

-----------------------------------------------------------------------------
(* tables/maxp.rs and tables/loca.rs *)

\* b"maxp"
TAG_MAXP == <<109, 97, 120, 112>>

\* b"loca"
TAG_LOCA == <<108, 111, 99, 97>>

\* the packed versions 0x0000_5000 and 0x0001_0000
MAXP_VER05 == U32(0, 20480)

MAXP_VER10 == U32(1, 0)

\* prev_tables.iter().find(|v| matches!(v, Table::X(_))), as a set
Find(list, tag) ==
    LET found == { i \in DOMAIN list : list[i].tag = tag }
    IN  { list[i] : i \in { j \in found : \A k \in found : j <= k } }

TableFailed(st, res) == [st |-> st, res |-> res, table |-> <<>>]

\* ParseError::MissingTable { missing, parsing }
MissingTable(missing, parsing) ==
    [kind |-> "MissingTable", what |-> missing, needed |-> 0, value |-> 0, parsing |-> parsing]

\* maxp: numGlyphs; rd is its read
MaxpNumGlyphs(rd) ==
    IF ~rd.ok THEN TableFailed(rd.st, IoUnexpectedEnd(rd.needed))
    ELSE [st |-> rd.st, res |-> Res("Ok", "maxp", 0, 0),
          table |-> [tag |-> "Maxp", num_glyphs |-> rd.value]]

\* maxp: the packed version; rd is its read
MaxpVersion(rd) ==
    IF ~rd.ok THEN TableFailed(rd.st, IoUnexpectedEnd(rd.needed))
    ELSE IF rd.value \notin {MAXP_VER05, MAXP_VER10}
    THEN TableFailed(rd.st, Res("InvalidVersion", "maxp", 0, 0))
    ELSE MaxpNumGlyphs(ReadInt(rd.st, 2))

\* the decoder of maxp: the version tag, then numGlyphs, the one field kept
MaxpParse(st) == MaxpVersion(ReadU32(st))

\* a < b on u32
LtU32(a, b) == a[1] < b[1] \/ (a[1] = b[1] /\ a[2] < b[2])

\* u32::MAX
U32_MAX == U32(U16_MAX, U16_MAX)

\* u32::from(half) * 2
Doubled(half) == U32((half * 2) \div Two16, (half * 2) % Two16)

\* loca::parse_table, lines 67-79 and 82-95: the loops over the offsets; left
\* is the count of offsets not read yet
RECURSIVE LocaOffsets(_, _, _, _, _, _)
RECURSIVE LocaOffset(_, _, _, _, _, _)
LocaOffsets(st, long, left, prev, offsets, checks) ==
    IF left = 0
    THEN [st |-> st, res |-> Res("Ok", "loca", 0, 0),
          table |-> [tag |-> "Loca", offsets |-> offsets]]
    ELSE LocaOffset(IF long THEN ReadU32(st) ELSE ReadInt(st, 2),
                    long, left, prev, offsets, checks)

\* one pass of the loop; rd is the read of the offset. The error names
\* prev + 1, an addition on u32
LocaOffset(rd, long, left, prev, offsets, checks) ==
    IF ~rd.ok THEN TableFailed(rd.st, IoUnexpectedEnd(rd.needed))
    ELSE IF LtU32(IF long THEN rd.value ELSE Doubled(rd.value), prev)
    THEN IF prev = U32_MAX /\ checks
         THEN TableFailed(rd.st, Res("panic", "overflow", 0, 0))
         ELSE TableFailed(rd.st, Res("Parsing", "loca", 0, 0))
    ELSE LocaOffsets(rd.st, long, left - 1,
                     IF long THEN rd.value ELSE Doubled(rd.value),
                     Append(offsets, IF long THEN rd.value ELSE Doubled(rd.value)),
                     checks)

\* loca::parse_table
LocaParse(prev_tables, st, checks) ==
    IF Find(prev_tables, "Head") = {} THEN TableFailed(st, MissingTable("head", "loca"))
    ELSE IF Find(prev_tables, "Maxp") = {} THEN TableFailed(st, MissingTable("maxp", "loca"))
    ELSE LocaOffsets(st, (CHOOSE h \in Find(prev_tables, "Head") : TRUE).long_offset,
                     (CHOOSE m \in Find(prev_tables, "Maxp") : TRUE).num_glyphs + 1,
                     ZeroU32, <<>>, checks)

\* loca::Type::len
LocaLen(loca) == Len(loca.offsets) - 1

\* loca::Type::index for idx < len: (offset, length), the length a
\* subtraction on u32
LocaIndex(loca, idx) ==
    <<loca.offsets[idx + 1], SubU32(loca.offsets[idx + 2], loca.offsets[idx + 1])>>

-----------------------------------------------------------------------------
(* tables/glyf.rs *)

\* b"glyf"
TAG_GLYF == <<103, 108, 121, 102>>

\* Flags::ON_CURVE, REPEAT, X_SHORT, X_SIGN_SKIP, Y_SHORT, Y_SIGN_SKIP
ON_CURVE == 1

REPEAT == 8

X_SHORT == 2

X_SIGN_SKIP == 16

Y_SHORT == 4

Y_SIGN_SKIP == 32

\* flags & mask != 0 for a mask of one bit
HasFlag(flags, mask) == (flags \div mask) % 2 = 1

\* the i16 of two big-endian bytes read as u16
I16(v) == IF v >= 32768 THEN v - Two16 ELSE v

\* the glyph pushed for a length of zero
EmptyGlyph ==
    [num_contours |-> 0, x_bounds |-> <<0, 0>>, y_bounds |-> <<0, 0>>,
     end_pts |-> <<>>, points |-> <<>>]

\* read_coords!: one coordinate per flag; vec is what has been pushed
RECURSIVE ReadCoords(_, _, _, _, _)
RECURSIVE ReadCoord(_, _, _, _, _, _)
ReadCoords(st, flags, short, sign, vec) ==
    IF Len(vec) = Len(flags) THEN [st |-> st, ok |-> TRUE, needed |-> 0, vec |-> vec]
    ELSE IF ~HasFlag(flags[Len(vec) + 1], short) /\ HasFlag(flags[Len(vec) + 1], sign)
    THEN ReadCoords(st, flags, short, sign, Append(vec, 0))
    ELSE ReadCoord(ReadInt(st, IF HasFlag(flags[Len(vec) + 1], short) THEN 1 ELSE 2),
                   flags, short, sign, vec, flags[Len(vec) + 1])

\* the arms of the match that read; rd is the read
ReadCoord(rd, flags, short, sign, vec, flag) ==
    IF ~rd.ok THEN [st |-> rd.st, ok |-> FALSE, needed |-> rd.needed, vec |-> vec]
    ELSE ReadCoords(rd.st, flags, short, sign,
                    Append(vec, IF ~HasFlag(flag, short) THEN I16(rd.value)
                                ELSE IF HasFlag(flag, sign) THEN rd.value
                                ELSE 0 - rd.value))

\* glyf::parse_table, lines 172-176: izip!(flags_vec, x_coords, y_coords)
Points(flags, x_coords, y_coords) ==
    [i \in 1..Len(flags) |-> <<x_coords[i], y_coords[i], HasFlag(flags[i], ON_CURVE)>>]

\* what the loop over loca carries: start is the source position the
\* TrackingReader was made at, loca the table, host the build
RECURSIVE GlyfLoop(_, _, _, _)
RECURSIVE GlyfY(_, _, _, _, _, _, _)
RECURSIVE GlyfX(_, _, _, _, _, _)
RECURSIVE GlyfFlags(_, _, _, _, _, _)
RECURSIVE GlyfRepeat(_, _, _, _, _, _, _)
RECURSIVE GlyfFlag(_, _, _, _, _, _)
RECURSIVE GlyfInstructions(_, _, _, _, _, _)
RECURSIVE GlyfInstrCount(_, _, _, _, _)
RECURSIVE GlyfEndPts(_, _, _, _, _)
RECURSIVE GlyfHeader(_, _, _, _)
RECURSIVE GlyfAt(_, _, _, _)
RECURSIVE GlyfSkip(_, _, _, _, _)

\* lines 169-184: rd is what read_coords! did for Y
GlyfY(c, idx, glyphs, head, end_pts, flags, rd) ==
    IF ~rd.ok THEN TableFailed(rd.st, IoUnexpectedEnd(rd.needed))
    ELSE GlyfLoop(c, rd.st, idx + 1,
                  Append(glyphs,
                         [num_contours |-> head.num_contours, x_bounds |-> head.x_bounds,
                          y_bounds |-> head.y_bounds, end_pts |-> end_pts,
                          points |-> Points(flags, head.x_coords, rd.vec)]))

\* line 169-170: rd is what read_coords! did for X
GlyfX(c, idx, glyphs, head, end_pts_flags, rd) ==
    IF ~rd.ok THEN TableFailed(rd.st, IoUnexpectedEnd(rd.needed))
    ELSE GlyfY(c, idx, glyphs,
               [num_contours |-> head.num_contours, x_bounds |-> head.x_bounds,
                y_bounds |-> head.y_bounds, x_coords |-> rd.vec],
               end_pts_flags[1], end_pts_flags[2],
               ReadCoords(rd.st, end_pts_flags[2], Y_SHORT, Y_SIGN_SKIP, <<>>))

\* lines 153-166: the loop that fills flags_vec, by itself: whether it ended
\* without an error, flags_vec as it left it and the position it read to
RECURSIVE FlagsVec(_, _, _)
RECURSIVE FlagsRead(_, _, _)
RECURSIVE FlagsRepeat(_, _, _, _)
FlagsVec(st, num_points, flags_vec) ==
    IF Len(flags_vec) = num_points THEN [ok |-> TRUE, vec |-> flags_vec, st |-> st]
    ELSE FlagsRead(ReadInt(st, 1), num_points, flags_vec)

\* lines 155-164: rd is the read of the flag byte
FlagsRead(rd, num_points, flags_vec) ==
    IF ~rd.ok THEN [ok |-> FALSE, vec |-> flags_vec, st |-> rd.st]
    ELSE IF HasFlag(rd.value, REPEAT)
    THEN FlagsRepeat(ReadInt(rd.st, 1), num_points, flags_vec, rd.value)
    ELSE FlagsVec(rd.st, num_points, Append(flags_vec, rd.value))

\* lines 157-164: rd is the read of the repeat count
FlagsRepeat(rd, num_points, flags_vec, flag) ==
    IF ~rd.ok THEN [ok |-> FALSE, vec |-> flags_vec, st |-> rd.st]
    ELSE FlagsVec(rd.st, num_points,
                  flags_vec \o [i \in 1..(1 + rd.value) |-> flag - REPEAT])

\* lines 153-166: the loop that fills flags_vec up to num_points
GlyfFlags(c, st, idx, glyphs, head, end_pts_flags) ==
    IF Len(end_pts_flags[2]) = end_pts_flags[1][Len(end_pts_flags[1])] + 1
    THEN GlyfX(c, idx, glyphs, head, end_pts_flags,
               ReadCoords(st, end_pts_flags[2], X_SHORT, X_SIGN_SKIP, <<>>))
    ELSE GlyfFlag(c, ReadInt(st, 1), idx, glyphs, head, end_pts_flags)

\* lines 157-164: rd is the read of the repeat count
GlyfRepeat(c, rd, idx, glyphs, head, end_pts_flags, flag) ==
    IF ~rd.ok THEN TableFailed(rd.st, IoUnexpectedEnd(rd.needed))
    ELSE GlyfFlags(c, rd.st, idx, glyphs, head,
                   <<end_pts_flags[1],
                     end_pts_flags[2] \o [i \in 1..(1 + rd.value) |-> flag - REPEAT]>>)

\* lines 155-164: rd is the read of the flag byte
GlyfFlag(c, rd, idx, glyphs, head, end_pts_flags) ==
    IF ~rd.ok THEN TableFailed(rd.st, IoUnexpectedEnd(rd.needed))
    ELSE IF HasFlag(rd.value, REPEAT)
    THEN GlyfRepeat(c, ReadInt(rd.st, 1), idx, glyphs, head, end_pts_flags, rd.value)
    ELSE GlyfFlags(c, rd.st, idx, glyphs, head,
                   <<end_pts_flags[1], Append(end_pts_flags[2], rd.value)>>)

\* lines 145-151: rd is the read of the instructions
GlyfInstructions(c, rd, count, idx, glyphs, head_end_pts) ==
    IF Len(rd.bytes) # count THEN TableFailed(rd.st, IoUnexpectedEnd(1))
    ELSE IF head_end_pts[2] = <<>>
    THEN TableFailed(rd.st, Res("panic", "No points in Glyph", 0, 0))
    ELSE GlyfFlags(c, rd.st, idx, glyphs, head_end_pts[1], <<head_end_pts[2], <<>>>>)

\* line 144: rd is the read of num_instructions
GlyfInstrCount(c, rd, idx, glyphs, head_end_pts) ==
    IF ~rd.ok THEN TableFailed(rd.st, IoUnexpectedEnd(rd.needed))
    ELSE GlyfInstructions(c, Read(rd.st, rd.value), rd.value, idx, glyphs, head_end_pts)

\* lines 136-142: rd is the read of the num_contours end points
GlyfEndPts(c, rd, idx, glyphs, head) ==
    IF Len(rd.bytes) # 2 * head.num_contours
    THEN TableFailed(rd.st, IoUnexpectedEnd(2 - (Len(rd.bytes) % 2)))
    ELSE GlyfInstrCount(c, ReadInt(rd.st, 2), idx, glyphs,
                        <<head, [i \in 1..head.num_contours |->
                                    BE(SubSeq(rd.bytes, 2 * i - 1, 2 * i))]>>)

\* lines 113-133: rd is the read of num_contours and the bounding box
GlyfHeader(c, rd, idx, glyphs) ==
    IF Len(rd.bytes) # 10 THEN TableFailed(rd.st, IoUnexpectedEnd(2 - (Len(rd.bytes) % 2)))
    ELSE IF I16(BE(SubSeq(rd.bytes, 1, 2))) < 0
    THEN IF glyphs = <<>> THEN TableFailed(rd.st, Res("panic", "index out of bounds", 0, 0))
         ELSE GlyfLoop(c, rd.st, idx + 1, Append(glyphs, glyphs[1]))
    ELSE GlyfEndPts(c, Read(rd.st, 2 * BE(SubSeq(rd.bytes, 1, 2))), idx, glyphs,
                    [num_contours |-> BE(SubSeq(rd.bytes, 1, 2)),
                     x_bounds |-> <<I16(BE(SubSeq(rd.bytes, 3, 4))),
                                    I16(BE(SubSeq(rd.bytes, 7, 8)))>>,
                     y_bounds |-> <<I16(BE(SubSeq(rd.bytes, 5, 6))),
                                    I16(BE(SubSeq(rd.bytes, 9, 10)))>>])

\* lines 105-111: after the skip
GlyfAt(c, st, idx, glyphs) ==
    IF st.pos - c.start # AsUsize(LocaIndex(c.loca, idx)[1])
    THEN TableFailed(st, Res("UnexpectedEop", "glyf",
                             UsizeSub(AsUsize(LocaIndex(c.loca, idx)[1]), st.pos - c.start,
                                      c.host.checks).count, 0))
    ELSE GlyfHeader(c, Read(st, 10), idx, glyphs)

\* line 104: reader.skip(offset - reader.total_read()); gap is the difference
GlyfSkip(c, st, gap, idx, glyphs) ==
    IF gap.panics THEN TableFailed(st, Res("panic", "overflow", 0, 0))
    ELSE GlyfAt(c, Skip(st, gap.count), idx, glyphs)

\* lines 82-185: the loop over the glyphs from idx on
GlyfLoop(c, st, idx, glyphs) ==
    IF idx = LocaLen(c.loca)
    THEN [st |-> st, res |-> Res("Ok", "glyf", 0, 0),
          table |-> [tag |-> "Glyf", glyphs |-> glyphs]]
    ELSE IF LocaIndex(c.loca, idx)[2] = ZeroU32
    THEN GlyfLoop(c, st, idx + 1, Append(glyphs, EmptyGlyph))
    ELSE GlyfSkip(c, st,
                  UsizeSub(AsUsize(LocaIndex(c.loca, idx)[1]), st.pos - c.start, c.host.checks),
                  idx, glyphs)

\* glyf::parse_table
GlyfParse(prev_tables, st, host) ==
    IF Find(prev_tables, "Loca") = {} THEN TableFailed(st, MissingTable("loca", "glyf"))
    ELSE GlyfLoop([start |-> st.pos, loca |-> CHOOSE l \in Find(prev_tables, "Loca") : TRUE,
                   host |-> host],
                  st, 0, <<>>)

-----------------------------------------------------------------------------
(* tables/mod.rs and font.rs: the dispatch of the tables *)

\* tables/mod.rs parse_table: the decoder registered for the tag, else
\* InvalidTag
parse_table(prev_tables, tag, st, host) ==
    IF tag = TAG_GLYF THEN GlyfParse(prev_tables, st, host)
    ELSE IF tag = TAG_MAXP THEN MaxpParse(st)
    ELSE IF tag = TAG_LOCA THEN LocaParse(prev_tables, st, host.checks)
    ELSE IF tag = TAG_HEAD THEN HeadParse(st)
    ELSE IF tag = TAG_NAME THEN NameParse(st, host)
    ELSE [st |-> st, res |-> Res("InvalidTag", "", 0, 0), table |-> <<>>]

\* open_font, lines 108-110: from the read of length on
RecordLength(tag, checksum, offset, length) ==
    IF ~length.ok THEN [st |-> length.st, res |-> IoUnexpectedEnd(length.needed)]
    ELSE [st |-> length.st,
          res |-> Res("Ok", "", 0, 0),
          record |-> [tag |-> tag, checksum |-> checksum,
                      offset |-> AsUsize(offset), length |-> AsUsize(length.value)]]

\* open_font, lines 107-110: from the read of offset on
RecordOffset(tag, checksum, offset) ==
    IF ~offset.ok THEN [st |-> offset.st, res |-> IoUnexpectedEnd(offset.needed)]
    ELSE RecordLength(tag, checksum, offset.value, ReadU32(offset.st))

\* open_font, lines 106-110: from the read of checksum on
RecordChecksum(tag, checksum) ==
    IF ~checksum.ok THEN [st |-> checksum.st, res |-> IoUnexpectedEnd(checksum.needed)]
    ELSE RecordOffset(tag, checksum.value, ReadU32(checksum.st))

\* open_font, lines 97-110: from the read of tag on
RecordTag(tag) ==
    IF Len(tag.bytes) # 4
    THEN [st |-> tag.st, res |-> Res("UnexpectedEop", "TableRecord", 4 - Len(tag.bytes), 0)]
    ELSE RecordChecksum(Buffer(tag.bytes, 4), ReadU32(tag.st))

\* open_font, lines 97-110: one pass of the directory loop
TableRecord(st) == RecordTag(Read(st, 4))

ReadTableRecord ==
    /\ pc = "directory"
    /\ Len(tables) < num_tables
    /\ \E out \in {TableRecord(At(pos, <<reader>>))} :
         /\ pos' = out.st.pos
         /\ reader' = out.st.readers[1]
         /\ IF out.res.kind = "Ok"
            THEN /\ tables' = Append(tables, out.record)
                 /\ UNCHANGED <<pc, result>>
            ELSE /\ result' = out.res
                 /\ pc' = "failed"
                 /\ UNCHANGED tables
    /\ UNCHANGED <<input, num_tables, parsed_tables, checksum_adj>>
    /\ UNCHANGED smVars

\* slice::sort_by on the offsets: a stable insertion of rec into a sorted list
RECURSIVE InsertByOffset(_, _)
InsertByOffset(sorted, rec) ==
    IF sorted = <<>> THEN <<rec>>
    ELSE IF sorted[Len(sorted)].offset <= rec.offset THEN Append(sorted, rec)
    ELSE Append(InsertByOffset(SubSeq(sorted, 1, Len(sorted) - 1), rec), sorted[Len(sorted)])

RECURSIVE SortByOffset(_)
SortByOffset(recs) ==
    IF recs = <<>> THEN <<>>
    ELSE InsertByOffset(SortByOffset(SubSeq(recs, 1, Len(recs) - 1)), recs[Len(recs)])

\* open_font, lines 118-122: after the directory loop
SortTables ==
    /\ pc = "directory"
    /\ Len(tables) = num_tables
    /\ tables' = SortByOffset(tables)
    /\ pc' = "dispatch"
    /\ UNCHANGED <<input, pos, reader, num_tables, parsed_tables, checksum_adj, result>>
    /\ UNCHANGED smVars

\* the first Table::Head of a table list, as a set
FirstHead(list) ==
    LET heads == { i \in DOMAIN list : list[i].tag = "Head" }
    IN  { list[i] : i \in { j \in heads : \A k \in heads : j <= k } }

\* what one pass of the loop over the sorted directory leaves
Dispatched(st, res, list, adj) == [st |-> st, res |-> res, tables |-> list, adj |-> adj]

\* open_font, lines 147-167: from the branch on the tag on; parsed is what
\* parse_table returned and fin what tag_reader.finish() did
DispatchParsed(rec, parsed, fin, prev_tables, adj) ==
    IF rec.tag = TAG_HEAD
    THEN IF parsed.res.kind # "Ok" THEN Dispatched(fin.st, parsed.res, prev_tables, adj)
         ELSE Dispatched(fin.st, parsed.res, Append(prev_tables, parsed.table),
                         parsed.table.checksum_adjustment)
    ELSE IF parsed.res.kind = "Ok"
    THEN Dispatched(fin.st, parsed.res, Append(prev_tables, parsed.table), adj)
    ELSE IF parsed.res.kind # "InvalidTag" THEN Dispatched(fin.st, parsed.res, prev_tables, adj)
    ELSE Dispatched(fin.st, Res("Ok", "", 0, 0), prev_tables, adj)

\* open_font, lines 144-145: tag_reader.skip(length - tag_reader.total_read())
\* and tag_reader.finish(); rest is the difference
DispatchSkipRest(rec, parsed, rest, prev_tables, adj) ==
    IF rest.panics THEN Dispatched(parsed.st, Res("panic", "overflow", 0, 0), prev_tables, adj)
    ELSE DispatchParsed(rec, parsed, Finish(Skip(parsed.st, rest.count)), prev_tables, adj)

\* open_font, lines 142-145: parsed is what parse_table returned
DispatchDecoded(rec, parsed, prev_tables, adj, host) ==
    DispatchSkipRest(rec, parsed,
                     UsizeSub(rec.length, parsed.st.readers[2].index, host.checks),
                     prev_tables, adj)

\* open_font, lines 134-145: a fresh ChecksumReader on the outer reader, and
\* parse_table reading through it
DispatchAt(rec, st, prev_tables, adj, host) ==
    DispatchDecoded(rec,
                    parse_table(prev_tables, rec.tag,
                                At(st.pos, <<st.readers[1], NewChecksumReader>>), host),
                    prev_tables, adj, host)

\* open_font, line 131: reader.skip(offset - reader.total_read()); gap is the
\* difference
DispatchSkipGap(rec, st, gap, prev_tables, adj, host) ==
    IF gap.panics THEN Dispatched(st, Res("panic", "overflow", 0, 0), prev_tables, adj)
    ELSE DispatchAt(rec, Skip(st, gap.count), prev_tables, adj, host)

\* open_font, lines 123-179: the body of the loop over the sorted directory
\* for the record rec
Dispatch(rec, st, prev_tables, adj, host) ==
    IF rec.offset # st.readers[1].index
    THEN DispatchSkipGap(rec, st, UsizeSub(rec.offset, st.readers[1].index, host.checks),
                         prev_tables, adj, host)
    ELSE DispatchAt(rec, st, prev_tables, adj, host)

DispatchTable ==
    /\ pc = "dispatch"
    /\ tables # <<>>
    /\ \E host \in {h \in Hosts : h.checks = overflow_checks} :
       \E out \in {Dispatch(Head(tables), At(pos, <<reader>>), parsed_tables, checksum_adj,
                            host)} :
         /\ pos' = out.st.pos
         /\ reader' = out.st.readers[1]
         /\ parsed_tables' = out.tables
         /\ checksum_adj' = out.adj
         /\ IF out.res.kind = "Ok"
            THEN /\ tables' = Tail(tables)
                 /\ UNCHANGED <<pc, result>>
            ELSE /\ result' = out.res
                 /\ pc' = "failed"
                 /\ UNCHANGED tables
    /\ UNCHANGED <<input, num_tables>>
    /\ UNCHANGED smVars

\* open_font, lines 183-188: the checksum compared with checksum_adj; fin is
\* what reader.finish() did
FontChecksum(fin, list) ==
    [st |-> fin.st,
     checksum |->
        SubU32(CHECKSUM_MAGIC,
               IF FirstHead(list) = {} THEN fin.checksum
               ELSE SubU32(fin.checksum,
                           (CHOOSE h \in FirstHead(list) : TRUE).checksum_adjustment))]

\* open_font, lines 189-197: the result
FontResult(checksum, adj) ==
    IF checksum # adj THEN Res("Parsing", "ChecksumAdjustment", 0, 0) ELSE Res("Ok", "", 0, 0)

\* open_font, lines 181-197
VerifyFontChecksum ==
    /\ pc = "dispatch"
    /\ tables = <<>>
    /\ \E out \in {FontChecksum(Finish(At(pos, <<reader>>)), parsed_tables)} :
         /\ pos' = out.st.pos
         /\ reader' = out.st.readers[1]
         /\ result' = FontResult(out.checksum, checksum_adj)
         /\ pc' = IF out.checksum = checksum_adj THEN "done" ELSE "failed"
    /\ UNCHANGED <<input, num_tables, tables, parsed_tables, checksum_adj>>
    /\ UNCHANGED smVars

-----------------------------------------------------------------------------
(* tables/name.rs: one call of Record::from_bytes *)

\* Record::from_bytes is entered with the ids of info and the slice `bytes` of
\* the storage area
EnterFromBytes(info, bytes) ==
    /\ input = bytes
    /\ pos = 0
    /\ reader = NewChecksumReader
    /\ pc = "Record::from_bytes"
    /\ num_tables = 0
    /\ tables = <<info>>
    /\ parsed_tables = <<>>
    /\ checksum_adj = ZeroU32
    /\ result = Res("none", "", 0, 0)

\* one call of Record::from_bytes(allocator, platform_id, encoding_id,
\* language_id, name, bytes) on a host
FromBytes ==
    /\ pc = "Record::from_bytes"
    /\ \E host \in {h \in Hosts : h.checks = overflow_checks} :
       \E out \in {from_bytes(tables[1].platform, tables[1].encoding, tables[1].language,
                              RecordTypeFrom(tables[1].name), input, host.base)} :
         /\ result' = IF out.panic = "" THEN Res("Ok", "", 0, 0)
                      ELSE Res("panic", out.panic, 0, 0)
         /\ parsed_tables' = IF out.panic = "" THEN <<out.record>> ELSE <<>>
    /\ pc' = "Record::returned"
    /\ UNCHANGED <<input, pos, reader, num_tables, tables, checksum_adj>>
    /\ UNCHANGED smVars

-----------------------------------------------------------------------------
(* tables/head.rs: the decoder of head over the bytes of the table *)

\* data[from..to] of a CoreVec: the bytes, when the vector has them
Slice(data, from, to) == SubSeq(data, from + 1, to)

\* the first range data[from..to] of `ranges` that ends past the vector, as a
\* set; indexing with it panics
RECURSIVE OutOfRange(_, _)
OutOfRange(data, ranges) ==
    IF ranges = <<>> THEN {}
    ELSE IF Head(ranges)[2] > Len(data) THEN {Head(ranges)}
    ELSE OutOfRange(data, Tail(ranges))

\* head::parse_table, lines 96-169: from created on
HeadFormats(data) ==
    IF OutOfRange(data, <<<<20, 28>>, <<28, 36>>, <<44, 46>>, <<46, 48>>, <<50, 52>>>>) # {}
    THEN [res |-> Res("panic", "range end index out of range", 0, 0), table |-> <<>>]
    ELSE IF BE(Slice(data, 50, 52)) > 1
    THEN [res |-> Res("Parsing", "head::indexToLocFormat", 0, BE(Slice(data, 50, 52))),
          table |-> <<>>]
    ELSE IF OutOfRange(data, <<<<52, 54>>>>) # {}
    THEN [res |-> Res("panic", "range end index out of range", 0, 0), table |-> <<>>]
    ELSE IF BE(Slice(data, 52, 54)) # 0
    THEN [res |-> Res("Parsing", "head::glyphDataFormat", 0, BE(Slice(data, 52, 54))),
          table |-> <<>>]
    ELSE [res |-> Res("Ok", "head", 0, 0),
          table |-> [units_per_em |-> BE(Slice(data, 18, 20)),
                     style |-> BE(Slice(data, 44, 46)),
                     smallest_px_size |-> BE(Slice(data, 46, 48)),
                     long_offset |-> BE(Slice(data, 50, 52)) = 1]]

\* head::parse_table, lines 58-94: from fontRevision on
HeadFields(data) ==
    IF OutOfRange(data, <<<<4, 8>>, <<12, 16>>>>) # {}
    THEN [res |-> Res("panic", "range end index out of range", 0, 0), table |-> <<>>]
    ELSE IF WordAt(data, 13) # HEAD_MAGIC
    THEN [res |-> Res("Parsing", "head::magic", 0, 0), table |-> <<>>]
    ELSE IF OutOfRange(data, <<<<18, 20>>>>) # {}
    THEN [res |-> Res("panic", "range end index out of range", 0, 0), table |-> <<>>]
    ELSE IF BE(Slice(data, 18, 20)) < 16 \/ BE(Slice(data, 18, 20)) > 16384
    THEN [res |-> Res("Parsing", "head::unitsPerEm", 0, BE(Slice(data, 18, 20))),
          table |-> <<>>]
    ELSE HeadFormats(data)

\* head::parse_table over data
head_parse_table(data) ==
    IF OutOfRange(data, <<<<0, 2>>, <<2, 4>>>>) # {}
    THEN [res |-> Res("panic", "range end index out of range", 0, 0), table |-> <<>>]
    ELSE IF BE(Slice(data, 0, 2)) # 1 /\ BE(Slice(data, 2, 4)) # 0
    THEN [res |-> Res("InvalidVersion", "head", 0, BE(Slice(data, 0, 2))), table |-> <<>>]
    ELSE HeadFields(data)

\* head::parse_table is entered with the table `data`
EnterHead(data) ==
    /\ input = data
    /\ pos = 0
    /\ reader = NewChecksumReader
    /\ pc = "head::parse_table"
    /\ num_tables = 0
    /\ tables = <<>>
    /\ parsed_tables = <<>>
    /\ checksum_adj = ZeroU32
    /\ result = Res("none", "", 0, 0)

\* one call of head::parse_table(allocator, prev_tables, data)
HeadParseTable ==
    /\ pc = "head::parse_table"
    /\ \E out \in {head_parse_table(input)} :
         /\ result' = out.res
         /\ parsed_tables' = IF out.res.kind = "Ok" THEN <<out.table>> ELSE <<>>
    /\ pc' = "head::returned"
    /\ UNCHANGED <<input, pos, reader, num_tables, tables, checksum_adj>>
    /\ UNCHANGED smVars

-----------------------------------------------------------------------------
(* verify_header on headers of every shape: each field right or wrong, the  *)
(* source cut short at every length                                         *)

\* the version tags tried: the one accepted, one that differs in the last
\* byte, "OTTO", and zeros
VersionTags == {SFNT_VERSION, <<0, 1, 0, 1>>, <<79, 84, 84, 79>>, <<0, 0, 0, 0>>}

\* the table counts tried: the small ones, and those around the overflow of
\* num_tables * 16
NumTablesTried == {0, 1, 2, 3, 4, 5, 4095, 4096, 4097, U16_MAX}

\* the values tried for a 16-bit header field whose right value is v
FieldTried(v) == {v % Two16, (v + 1) % Two16, 0}

HeaderOf(tag, n, sr, es, rs) == tag \o Bytes(n, 2) \o Bytes(sr, 2) \o Bytes(es, 2) \o Bytes(rs, 2)

\* the headers with table count n
HeadersOf(n) ==
    { HeaderOf(tag, n, sr, es, rs) :
        tag \in VersionTags,
        sr \in FieldTried(SearchRangeOf(n)),
        es \in FieldTried(ILog2(n)),
        rs \in FieldTried(n * 16 - SearchRangeOf(n)) }

Headers == UNION { HeadersOf(n) : n \in NumTablesTried }

HdrInit ==
    /\ SmIdle
    /\ \E h \in Headers : \E cut \in 0..Len(h) : OpenFont(SubSeq(h, 1, cut))

HdrNext == VerifyHeader

HdrSpec == HdrInit /\ [][HdrNext]_vars

-----------------------------------------------------------------------------
(* open_font on font files: one or two tables, tagged head or zzzz, at      *)
(* offsets before, at and after the end of the directory, the source cut    *)
(* short at every length from the end of the header on                      *)

\* the four big-endian bytes of a u32
U32Bytes(a) == Bytes(a[1], 2) \o Bytes(a[2], 2)

\* the wrapping sum of the big-endian words of a byte sequence, the last word
\* padded with zeros
RECURSIVE WordSumOf(_, _, _)
WordSumOf(bytes, first, last) ==
    IF first > last THEN ZeroU32
    ELSE IF first = last
    THEN WordAt(Buffer(SubSeq(bytes, 4 * first - 3, Min(4 * first, Len(bytes))), 4), 1)
    ELSE AddU32(WordSumOf(bytes, first, (first + last) \div 2),
                WordSumOf(bytes, (first + last) \div 2 + 1, last))

WordSum(bytes) == WordSumOf(bytes, 1, (Len(bytes) + 3) \div 4)

\* the header of a font of n tables
FontHeader(n) == HeaderOf(SFNT_VERSION, n, SearchRangeOf(n), ILog2(n), n * 16 - SearchRangeOf(n))

\* a directory record
RecordOf(tag, checksum, offset, length) ==
    tag \o U32Bytes(checksum) \o U32Bytes(U32(0, offset)) \o U32Bytes(U32(0, length))

Zeros(n) == [i \in 1..n |-> 0]

\* a head table: version 1.0, fontRevision 1.0, lowestRecPPEM 8
HeadTable(adjustment, magic, units) ==
    Bytes(1, 2) \o Bytes(0, 2) \o <<0, 1, 0, 0>> \o U32Bytes(adjustment) \o U32Bytes(magic)
        \o Bytes(0, 2) \o Bytes(units, 2) \o Zeros(16) \o Zeros(8)
        \o Bytes(0, 2) \o Bytes(8, 2) \o Bytes(2, 2) \o Bytes(0, 2) \o Bytes(0, 2)

\* the word that brings the word sum of file to 0xB1B0AFBA, where file holds
\* zero in its place
Balance(file) == SubU32(CHECKSUM_MAGIC, WordSum(file))

\* a font of one table with a tag no decoder is registered for
UnknownFile(checksum, offset, length, body) ==
    FontHeader(1) \o RecordOf(TAG_UNKNOWN, checksum, offset, length) \o body

\* the bytes tried after the directory
BodiesTried == {<<>>, <<7>>, <<7, 0, 0, 0>>, <<7, 1, 1, 1>>, <<7, 1, 1, 1, 1, 1, 1, 1>>}

\* the directory checksum fields tried for a file: zero, the one that brings
\* the file's word sum to 0xB1B0AFBA, and that less the word 01 01 01 01
ChecksumsTried(file) == {ZeroU32, Balance(file), SubU32(Balance(file), U32(257, 257))}

UnknownFiles ==
    UNION { { UnknownFile(c, offset, length, body) :
                c \in ChecksumsTried(UnknownFile(ZeroU32, offset, length, body)) } :
            offset \in {27, 28, 29}, length \in {0, 1, 4}, body \in BodiesTried }

\* a font of the one table head, with or without the padding after it
HeadFile(adjustment, magic, units, padding) ==
    FontHeader(1) \o RecordOf(TAG_HEAD, ZeroU32, 28, 54)
        \o HeadTable(adjustment, magic, units) \o padding

HeadFiles ==
    UNION { { HeadFile(adjustment, magic, units, padding) :
                adjustment \in {ZeroU32, Balance(HeadFile(ZeroU32, magic, units, padding))} } :
            magic \in {HEAD_MAGIC, U32(24335, 15604)},
            units \in {1000, 0},
            padding \in {<<>>, <<0, 0>>} }

\* a font of the tables head and zzzz; swapped puts the record of zzzz first
\* in the directory
TwoTableFile(adjustment, swapped) ==
    LET head == RecordOf(TAG_HEAD, ZeroU32, 44, 54)
        other == RecordOf(TAG_UNKNOWN, ZeroU32, 100, 4)
    IN  FontHeader(2) \o (IF swapped THEN other \o head ELSE head \o other)
            \o HeadTable(adjustment, HEAD_MAGIC, 1000) \o <<0, 0>> \o <<1, 2, 3, 4>>

TwoTableFiles ==
    UNION { { TwoTableFile(adjustment, swapped) :
                adjustment \in {ZeroU32, Balance(TwoTableFile(ZeroU32, swapped))} } :
            swapped \in BOOLEAN }

\* a NameRecord of a name table
NameRecordOf(platform, encoding, language, name, length, offset) ==
    Bytes(platform, 2) \o Bytes(encoding, 2) \o Bytes(language, 2) \o Bytes(name, 2)
        \o Bytes(length, 2) \o Bytes(offset, 2)

RECURSIVE Concat(_)
Concat(seqs) == IF seqs = <<>> THEN <<>> ELSE Head(seqs) \o Concat(Tail(seqs))

\* a name table of the given version with the NameRecords `records`, no
\* LangTagRecord, and the storage area right after them
NameTable(version, records, storage) ==
    Bytes(version, 2) \o Bytes(Len(records), 2)
        \o Bytes(6 + 12 * Len(records) + (IF version = 1 THEN 2 ELSE 0), 2)
        \o Concat(records) \o (IF version = 1 THEN Bytes(0, 2) ELSE <<>>) \o storage

\* the platform and encoding ids tried
EncodingsTried == {<<0, 3>>, <<0, 4>>, <<3, 1>>, <<3, 10>>, <<1, 0>>}

\* the (length, offset) of the strings tried in a storage area of 4 bytes
StringsTried == {<<4, 0>>, <<2, 2>>, <<3, 0>>, <<2, 1>>, <<0, 0>>}

\* the storage areas tried: "AB", a surrogate pair, a lone low surrogate and "A"
StoragesTried == {<<0, 65, 0, 66>>, <<216, 61, 222, 0>>, <<220, 0, 0, 65>>}

\* the NameRecord lists tried: none, one, and two that share their bytes
NameRecordsTried ==
    {<<>>}
        \cup { <<NameRecordOf(pe[1], pe[2], 0, 1, str[1], str[2])>> :
                 pe \in EncodingsTried, str \in StringsTried }
        \cup { <<NameRecordOf(0, 3, 0, 1, 4, 0), NameRecordOf(3, 1, 1033, 300, 2, 0)>>,
               <<NameRecordOf(0, 3, 0, 40000, 4, 0)>> }

NameTables ==
    { NameTable(version, records, storage) :
        version \in {0, 1}, records \in NameRecordsTried, storage \in StoragesTried }

\* a font of the one table name, declared with `length` bytes
NameFile(checksum, length, table) ==
    FontHeader(1) \o RecordOf(TAG_NAME, checksum, 28, length) \o table

\* the name fonts: the length declared as 2 or 22 bytes, the whole-file sum
\* balanced or not
NameFiles ==
    UNION { { NameFile(checksum, length, table) :
                checksum \in {ZeroU32, Balance(NameFile(ZeroU32, length, table))} } :
            length \in {2, 22}, table \in NameTables }

\* a name font that is cut at every length
NameFileCut == NameFile(ZeroU32, 2, NameTable(1, <<NameRecordOf(0, 3, 0, 1, 4, 0)>>, <<0, 65, 0, 66>>))

FontFiles == UnknownFiles \cup HeadFiles \cup TwoTableFiles \cup {NameFileCut}

\* the bytes verify_header reads
HEADER_LEN == Len(FontHeader(1))

\* b"hhea" and b"hmtx"
TAG_HHEA == <<104, 104, 101, 97>>

TAG_HMTX == <<104, 109, 116, 120>>

\* a table padded with zeros to a multiple of four bytes
Padded(body) == body \o Zeros((4 - (Len(body) % 4)) % 4)

\* the directory of the tables tabs, each a <<tag, body>>, the first at offset
RECURSIVE DirectoryOf(_, _)
DirectoryOf(tabs, offset) ==
    IF tabs = <<>> THEN <<>>
    ELSE RecordOf(Head(tabs)[1], ZeroU32, offset, Len(Head(tabs)[2]))
             \o DirectoryOf(Tail(tabs), offset + Len(Padded(Head(tabs)[2])))

RECURSIVE BodiesOf(_)
BodiesOf(tabs) == IF tabs = <<>> THEN <<>> ELSE Padded(Head(tabs)[2]) \o BodiesOf(Tail(tabs))

\* a font of the tables tabs, stored one after the other in the order of tabs
FontOf(tabs) ==
    FontHeader(Len(tabs)) \o DirectoryOf(tabs, HEADER_LEN + 16 * (Len(tabs) - 1) + 16)
        \o BodiesOf(tabs)

\* a head table with indexToLocFormat loc
HeadTableLoc(adjustment, loc) ==
    SubSeq(HeadTable(adjustment, HEAD_MAGIC, 1000), 1, 50) \o Bytes(loc, 2) \o Bytes(0, 2)

\* a maxp table of version 0.5
MaxpTable(version, num_glyphs) == U32Bytes(version) \o Bytes(num_glyphs, 2)

\* a loca table of the offsets, each a u32; the short format stores the low
\* 16 bits of the halves
RECURSIVE LocaTable(_, _)
LocaTable(long, offsets) ==
    IF offsets = <<>> THEN <<>>
    ELSE (IF long THEN U32Bytes(Head(offsets)) ELSE Bytes((Head(offsets)[1] % 2) * 32768 + Head(offsets)[2] \div 2, 2))
             \o LocaTable(long, Tail(offsets))

\* a simple glyph of one contour and two points, each point moved by (5, 3)
\* from the one before, the deltas stored as bytes
GlyphShort ==
    Bytes(1, 2) \o Bytes(0, 2) \o Bytes(0, 2) \o Bytes(10, 2) \o Bytes(6, 2)
        \o Bytes(1, 2) \o Bytes(0, 2) \o <<55, 55>> \o <<5, 5>> \o <<3, 3>>

\* a simple glyph of one contour and three points: a repeated flag, the x
\* deltas -2 stored as words, the y of every point that of the one before;
\* one instruction byte
GlyphLong ==
    Bytes(1, 2) \o Bytes(65530, 2) \o Bytes(0, 2) \o Bytes(0, 2) \o Bytes(0, 2)
        \o Bytes(2, 2) \o Bytes(1, 2) \o <<0>> \o <<41, 2>>
        \o Bytes(65534, 2) \o Bytes(65534, 2) \o Bytes(65534, 2) \o <<0>>

\* a composite glyph, and a glyph of no contours
GlyphComposite == Bytes(65535, 2) \o Zeros(8) \o Zeros(10)

GlyphEmptyContours == Bytes(0, 2) \o Zeros(8) \o Bytes(0, 2) \o Zeros(8)

\* a simple glyph of one contour and two points whose one flag is repeated
\* twice, three flags for two points
GlyphOvershoot ==
    Bytes(1, 2) \o Zeros(8) \o Bytes(1, 2) \o Bytes(0, 2) \o <<41, 2>> \o Zeros(4)

\* the glyf tables tried, each of two glyphs of 20 bytes
GlyfTablesTried ==
    {GlyphShort \o GlyphLong, GlyphLong \o GlyphShort, GlyphShort \o GlyphComposite,
     GlyphComposite \o GlyphShort, GlyphEmptyContours \o GlyphShort,
     GlyphShort \o SubSeq(GlyphLong, 1, 15), GlyphOvershoot \o GlyphShort}

\* the offsets tried for two glyphs: both there, the second empty, the first
\* empty, decreasing, and decreasing from u32::MAX
LocaOffsetsTried ==
    {<<U32(0, 0), U32(0, 20), U32(0, 40)>>, <<U32(0, 0), U32(0, 20), U32(0, 20)>>,
     <<U32(0, 20), U32(0, 20), U32(0, 40)>>, <<U32(0, 0), U32(0, 20), U32(0, 10)>>,
     <<U32(0, 20), U32(0, 0), U32(0, 40)>>, <<U32(0, 0), U32_MAX, U32(0, 40)>>,
     <<U32(0, 20), U32(0, 10), U32(0, 0)>>}

\* the orders tried for the tables of an outline font
OrdersTried ==
    {<<TAG_HEAD, TAG_MAXP, TAG_LOCA, TAG_GLYF>>, <<TAG_MAXP, TAG_HEAD, TAG_LOCA, TAG_GLYF>>,
     <<TAG_GLYF, TAG_HEAD, TAG_MAXP, TAG_LOCA>>, <<TAG_LOCA, TAG_HEAD, TAG_MAXP, TAG_GLYF>>,
     <<TAG_HEAD, TAG_LOCA, TAG_MAXP, TAG_GLYF>>, <<TAG_HEAD, TAG_MAXP, TAG_GLYF, TAG_LOCA>>,
     <<TAG_HEAD, TAG_MAXP, TAG_LOCA>>, <<TAG_HMTX, TAG_HEAD, TAG_HHEA, TAG_MAXP>>,
     <<TAG_HEAD, TAG_MAXP, TAG_HHEA, TAG_HMTX>>, <<TAG_HHEA>>, <<TAG_HMTX>>, <<TAG_MAXP>>}

\* the table stored for a tag
BodyOf(tag, adjustment, long, version, offsets, glyf) ==
    IF tag = TAG_HEAD THEN HeadTableLoc(adjustment, IF long THEN 1 ELSE 0)
    ELSE IF tag = TAG_MAXP THEN MaxpTable(version, Len(offsets) - 1)
    ELSE IF tag = TAG_LOCA THEN LocaTable(long, offsets)
    ELSE IF tag = TAG_GLYF THEN glyf
    ELSE Zeros(8)

\* the tables of an outline font, each a <<tag, body>>, in the order `order`
RECURSIVE TablesOf(_, _, _, _, _, _)
TablesOf(order, adjustment, long, version, offsets, glyf) ==
    IF order = <<>> THEN <<>>
    ELSE <<<<Head(order), BodyOf(Head(order), adjustment, long, version, offsets, glyf)>>>>
             \o TablesOf(Tail(order), adjustment, long, version, offsets, glyf)

\* an outline font
OutlineFile(order, adjustment, long, version, offsets, glyf) ==
    FontOf(TablesOf(order, adjustment, long, version, offsets, glyf))

\* the outline fonts: every order with the first offsets and glyphs, and in
\* the first order every format, version, offsets and glyphs; the whole-file
\* sum balanced through head
OutlineFiles ==
    UNION { { OutlineFile(f[1], adjustment, f[2], f[3], f[4], f[5]) :
                adjustment \in {Balance(OutlineFile(f[1], ZeroU32, f[2], f[3], f[4], f[5]))} } :
            f \in (OrdersTried \X BOOLEAN \X {MAXP_VER05}
                       \X {<<U32(0, 0), U32(0, 20), U32(0, 40)>>} \X {GlyphShort \o GlyphLong})
                  \cup ({<<TAG_HEAD, TAG_MAXP, TAG_LOCA, TAG_GLYF>>} \X BOOLEAN
                            \X {MAXP_VER05, MAXP_VER10, U32(0, 0)}
                            \X LocaOffsetsTried \X GlyfTablesTried) }

FontInit ==
    /\ SmIdle
    /\ \/ \E file \in FontFiles : \E cut \in HEADER_LEN..Len(file) : OpenFont(SubSeq(file, 1, cut))
       \/ \E file \in NameFiles \cup OutlineFiles : OpenFont(file)

FontNext ==
    \/ VerifyHeader
    \/ ReadTableRecord
    \/ SortTables
    \/ DispatchTable
    \/ VerifyFontChecksum

FontSpec == FontInit /\ [][FontNext]_vars

-----------------------------------------------------------------------------
(* head::parse_table on head tables: every field right or wrong, and one    *)
(* table cut at every length                                                *)

\* a head table of 54 bytes
HeadData(major, minor, magic, units, loc, format) ==
    Bytes(major, 2) \o Bytes(minor, 2) \o <<0, 1, 0, 0>> \o Zeros(4) \o U32Bytes(magic)
        \o Bytes(0, 2) \o Bytes(units, 2) \o Zeros(16) \o Zeros(8)
        \o Bytes(0, 2) \o Bytes(8, 2) \o Bytes(2, 2) \o Bytes(loc, 2) \o Bytes(format, 2)

VersionsTried == {<<1, 0>>, <<1, 5>>, <<2, 0>>, <<0, 1>>, <<2, 5>>}

UnitsTried == {15, 16, 1000, 16384, 16385}

HeadDatas ==
    { HeadData(v[1], v[2], magic, units, loc, format) :
        v \in VersionsTried, magic \in {HEAD_MAGIC, U32(24335, 15604)},
        units \in UnitsTried, loc \in {0, 1, 2}, format \in {0, 1} }
        \cup { SubSeq(HeadData(1, 0, HEAD_MAGIC, 1000, 0, 0), 1, cut) : cut \in 0..54 }

HeadInit ==
    /\ SmIdle
    /\ \E data \in HeadDatas : EnterHead(data)

HeadNext == HeadParseTable

HeadSpec == HeadInit /\ [][HeadNext]_vars

-----------------------------------------------------------------------------
(* Record::from_bytes on records of every platform and encoding tried *)

\* the ids tried: platforms Unicode, Macintosh and Windows
RecordInfos ==
    [platform : {0, 1, 3}, encoding : {0, 1, 3, 4, 10}, language : {0, 1033}, name : {1}]

\* the slices tried: "AB", a surrogate pair, a lone low surrogate and "A", an
\* odd length, nothing
SlicesTried ==
    {<<0, 65, 0, 66>>, <<216, 61, 222, 0>>, <<220, 0, 0, 65>>, <<0, 65, 0>>, <<>>}

RecInit ==
    /\ SmIdle
    /\ \E info \in RecordInfos : \E bytes \in SlicesTried : EnterFromBytes(info, bytes)

RecNext == FromBytes

RecSpec == RecInit /\ [][RecNext]_vars

-----------------------------------------------------------------------------
(* Claims about verify_header *)

\* the 16-bit header field at byte offset off of the source
HeaderField(off) == BE(SubSeq(input, off + 1, off + 2))

\* the source holds the version tag verify_header accepts and the four fields
HeaderRead == Len(input) >= 12 /\ SubSeq(input, 1, 4) = SFNT_VERSION

\* the three derived fields are the ones the formulas give for numTables
GeometryHolds ==
    LET n == HeaderField(4) IN
    /\ n > 0
    /\ HeaderField(6) = (2 ^ ILog2(n)) * 16
    /\ HeaderField(8) = ILog2(n)
    /\ HeaderField(10) = n * 16 - HeaderField(6)

\* C8: for every numTables and every triple read from the header,
\* verify_header returns Ok(numTables) exactly when searchRange, entrySelector
\* and rangeShift are the values derived from numTables, and fails with a
\* Parsing error in every other case.
C8_HeaderGeometry ==
    (pc # "verify_header" /\ HeaderRead) =>
        IF GeometryHolds
        THEN pc = "directory" /\ num_tables = HeaderField(4)
        ELSE pc = "failed" /\ result.kind = "Parsing"

\* C9: a source whose version tag is not 00 01 00 00, or that ends before its
\* fourth byte, fails with InvalidSfntVersion before numTables is read.
C9_BadVersionRejected ==
    (pc # "verify_header" /\ (Len(input) < 4 \/ SubSeq(input, 1, 4) # SFNT_VERSION)) =>
        (result.kind = "InvalidSfntVersion" /\ pos <= 4)

-----------------------------------------------------------------------------
(* Claims about open_font *)

\* open_font has come to its last check: it returned Ok, or the error of the
\* check
FinalCheckReached ==
    \/ pc = "done"
    \/ pc = "failed" /\ result.kind = "Parsing" /\ result.what = "ChecksumAdjustment"

\* the whole-file check on the bytes the source has handed out: S is the
\* wrapping sum of their big-endian words, adj the checksumAdjustment of the
\* head table decoded, 0 when there is none
WholeFileCheck ==
    LET S == WordSum(SubSeq(input, 1, pos))
        adj == IF FirstHead(parsed_tables) = {} THEN ZeroU32
               ELSE (CHOOSE h \in FirstHead(parsed_tables) : TRUE).checksum_adjustment
    IN  SubU32(CHECKSUM_MAGIC, SubU32(S, adj)) = adj

\* C7: open_font returns Ok only if the whole-file check passes: with S the
\* wrapping 32-bit sum of all big-endian words consumed through the outer
\* checksum reader and adj the head table's checksumAdjustment (0 without a
\* head table), 0xB1B0AFBA - (S - adj) equals adj; otherwise it fails with
\* Parsing{ChecksumAdjustment}.
C7_OkOnlyIfWholeFileCheck ==
    FinalCheckReached => (pc = "done" <=> WholeFileCheck)

\* the source holds a header verify_header accepts and ends inside the
\* directory that header announces
EndsInDirectory ==
    /\ HeaderRead
    /\ GeometryHolds
    /\ Len(input) < HEADER_LEN + 16 * HeaderField(4)

\* C10: when the input ends inside a 16-byte directory record (in the tag,
\* checksum, offset or length field), open_font fails with
\* UnexpectedEop{location: "TableRecord", needed}, needed being the bytes
\* missing from the field it was reading.
C10_TruncatedRecordIsEop ==
    (pc \notin {"verify_header", "directory"} /\ EndsInDirectory) =>
        /\ pc = "failed"
        /\ result.kind = "UnexpectedEop"
        /\ result.what = "TableRecord"
        /\ result.needed = 4 - (Len(input) % 4)

\* where the decoder of the next record starts reading: after the skip to
\* the offset of the record
DecoderStart ==
    IF Head(tables).offset # reader.index
    THEN Skip(At(pos, <<reader>>),
              UsizeSub(Head(tables).offset, reader.index, overflow_checks).count)
    ELSE At(pos, <<reader>>)

\* open_font gets as far as calling the decoder of the next record
DecoderRuns ==
    /\ pc = "dispatch"
    /\ tables # <<>>
    /\ ~(Head(tables).offset < reader.index /\ overflow_checks)

\* what the decoder of the next record returns on the host
DecoderResult(host) ==
    parse_table(parsed_tables, Head(tables).tag,
                At(DecoderStart.pos, <<DecoderStart.readers[1], NewChecksumReader>>), host).res

ThisBuild == { h \in Hosts : h.checks = overflow_checks }

C11_Step ==
    DecoderRuns =>
        \A host \in ThisBuild :
            /\ DecoderResult(host).kind = "InvalidTag" =>
                  /\ pc' = "dispatch"
                  /\ tables' = Tail(tables)
                  /\ parsed_tables' = parsed_tables
            /\ DecoderResult(host).kind \notin {"Ok", "InvalidTag", "panic"} =>
                  /\ pc' = "failed"
                  /\ result' = DecoderResult(host)
                  /\ parsed_tables' = parsed_tables

\* C11: in the dispatch loop a decoder result of InvalidTag never aborts the
\* parse (the table is left out and the next record is processed), and any
\* other decoder error makes open_font return that error with no Font.
C11_DecoderErrors == [][DispatchTable => C11_Step]_vars

\* the seven tags the dispatcher is to know
SevenTags == {TAG_HEAD, TAG_HHEA, TAG_HMTX, TAG_MAXP, TAG_LOCA, TAG_GLYF, TAG_NAME}

\* C12: parse_table has a decoder for each of the tags head, hhea, hmtx, maxp,
\* loca, glyf and name, and returns InvalidTag exactly for the tags outside
\* this set.
C12_SevenDecoders ==
    DecoderRuns =>
        \A host \in ThisBuild :
            DecoderResult(host).kind = "InvalidTag" <=> Head(tables).tag \notin SevenTags

\* the decoder of the next record, which is not head, succeeds
DecoderSucceeds ==
    /\ DecoderRuns
    /\ Head(tables).tag # TAG_HEAD
    /\ \A host \in ThisBuild : DecoderResult(host).kind = "Ok"

C13_Step ==
    DecoderSucceeds =>
        /\ pc' = "dispatch"
        /\ tables' = Tail(tables)
        /\ \A host \in ThisBuild :
              parsed_tables' =
                  Append(parsed_tables,
                         parse_table(parsed_tables, Head(tables).tag,
                                     At(DecoderStart.pos,
                                        <<DecoderStart.readers[1], NewChecksumReader>>),
                                     host).table)

\* C13: a per-table checksum mismatch is never the cause of a failure: for a
\* table other than head whose decoder succeeds, open_font goes on to the next
\* record, whatever the computed checksum is, and keeps the table.
C13_ChecksumMismatchTolerated == [][DispatchTable => C13_Step]_vars

\* the tables a table depends on, as <<dependent, dependency>> pairs of tags
Dependencies ==
    {<<TAG_GLYF, TAG_LOCA>>, <<TAG_GLYF, TAG_MAXP>>, <<TAG_LOCA, TAG_HEAD>>,
     <<TAG_LOCA, TAG_MAXP>>, <<TAG_HMTX, TAG_MAXP>>, <<TAG_HMTX, TAG_HHEA>>}

\* the Table variant named after a tag
VariantOf(tag) ==
    IF tag = TAG_GLYF THEN "Glyf" ELSE IF tag = TAG_LOCA THEN "Loca"
    ELSE IF tag = TAG_HEAD THEN "Head" ELSE IF tag = TAG_MAXP THEN "Maxp"
    ELSE IF tag = TAG_HMTX THEN "Hmtx" ELSE IF tag = TAG_HHEA THEN "Hhea"
    ELSE IF tag = TAG_NAME THEN "Name" ELSE "none"

\* every table of the list comes after the tables it depends on
DependencyOrder(list) ==
    \A i \in DOMAIN list : \A d \in Dependencies :
        list[i].tag = VariantOf(d[1]) => \E j \in 1..(i - 1) : list[j].tag = VariantOf(d[2])

\* the next record is of a table that depends on one stored at a higher offset
DependencyAhead ==
    /\ DecoderRuns
    /\ \E d \in Dependencies :
          /\ Head(tables).tag = d[1]
          /\ \E j \in 2..Len(tables) :
                tables[j].tag = d[2] /\ tables[j].offset > Head(tables).offset
          /\ \A j \in DOMAIN parsed_tables : parsed_tables[j].tag # VariantOf(d[2])

C14_Step ==
    /\ pc' = "done" => DependencyOrder(parsed_tables')
    /\ DispatchTable /\ DependencyAhead => pc' = "failed" /\ result'.kind = "MissingTable"

\* C14: in every Font returned the tables are in dependency order (Glyf after
\* Loca and Maxp, Loca after Head and Maxp, Hmtx after Maxp and Hhea), and a
\* file whose dependent table lies at a lower offset than its dependency gives
\* MissingTable and no Font.
C14_DependencyOrder == [][C14_Step]_vars

C15_Step ==
    /\ \A i \in DOMAIN slots : slots'[i].ver >= slots[i].ver
    /\ num_elems' - num_elems \in {0 - 1, 0, 1}
    /\ Len(slots') >= Len(slots)

\* C15: no sequence of push and try_pop makes a 16-bit slot version, element
\* count or slot index wrap around: at the bound the operation fails fast, so
\* no version ever goes back to a smaller value.
C15_NoWrapAround == [][C15_Step]_vars

\* the bytes open_font skips to reach the next table
GapSkipped == Head(tables).offset - reader.index

\* C16: CoreRead::skip(n) either consumes exactly n bytes and returns Ok or
\* returns an error; it never returns Ok after fewer than n bytes because the
\* source ended.
C16_SkipIsExact ==
    (pc = "dispatch" /\ tables # <<>> /\ GapSkipped > 0) =>
        (SkipReturns(At(pos, <<reader>>), GapSkipped).kind = "Ok" =>
            SkipReturns(At(pos, <<reader>>), GapSkipped).total = GapSkipped)

\* the decoder of loca is called with head and maxp decoded
LocaRuns ==
    /\ DecoderRuns
    /\ Head(tables).tag = TAG_LOCA
    /\ Find(parsed_tables, "Head") # {}
    /\ Find(parsed_tables, "Maxp") # {}

\* what the decoder of loca is given: the format, the number of glyphs
LocaLong == (CHOOSE h \in Find(parsed_tables, "Head") : TRUE).long_offset

LocaGlyphs == (CHOOSE m \in Find(parsed_tables, "Maxp") : TRUE).num_glyphs

\* the i-th offset stored in the source, i from 0, as a u32 before doubling
StoredOffset(i) ==
    IF LocaLong THEN WordAt(input, DecoderStart.pos + 4 * i + 1)
    ELSE U32(0, BE(SubSeq(input, DecoderStart.pos + 2 * i + 1, DecoderStart.pos + 2 * i + 2)))

\* the source holds all numGlyphs + 1 offsets, one of them smaller than the
\* one before it
StoredDecreasing ==
    /\ DecoderStart.pos + (IF LocaLong THEN 4 ELSE 2) * (LocaGlyphs + 1) <= Len(input)
    /\ \E i \in 1..LocaGlyphs : LtU32(StoredOffset(i), StoredOffset(i - 1))

NonDecreasing(offsets) ==
    \A i \in 1..(Len(offsets) - 1) : ~LtU32(offsets[i + 1], offsets[i])

LocaDecoded(host) ==
    parse_table(parsed_tables, Head(tables).tag,
                At(DecoderStart.pos, <<DecoderStart.readers[1], NewChecksumReader>>), host)

\* C17: when loca::parse_table succeeds the offsets have length numGlyphs + 1
\* and are non-decreasing; an input of either format with an offset smaller
\* than its predecessor fails with Parsing of "loca".
C17_LocaOffsets ==
    LocaRuns =>
        \A host \in ThisBuild :
            /\ LocaDecoded(host).res.kind = "Ok" =>
                  /\ Len(LocaDecoded(host).table.offsets) = LocaGlyphs + 1
                  /\ NonDecreasing(LocaDecoded(host).table.offsets)
            /\ StoredDecreasing =>
                  /\ LocaDecoded(host).res.kind = "Parsing"
                  /\ LocaDecoded(host).res.what = "loca"

\* the fields of the head table in the source that break a rule, by the name
\* the error gives them; the version is named by the location "head"
HeadViolations ==
    (IF BE(SubSeq(input, 1, 2)) # 1 \/ BE(SubSeq(input, 3, 4)) # 0
     THEN {"head"} ELSE {})
        \cup (IF WordAt(input, 13) # HEAD_MAGIC THEN {"head::magic"} ELSE {})
        \cup (IF BE(SubSeq(input, 19, 20)) < 16 \/ BE(SubSeq(input, 19, 20)) > 16384
              THEN {"head::unitsPerEm"} ELSE {})
        \cup (IF BE(SubSeq(input, 51, 52)) \notin {0, 1}
              THEN {"head::indexToLocFormat"} ELSE {})
        \cup (IF BE(SubSeq(input, 53, 54)) # 0 THEN {"head::glyphDataFormat"} ELSE {})

\* C18: head::parse_table succeeds only for a table of version (1, 0), magic
\* 0x5F0F3CF5, unitsPerEm in [16, 16384], indexToLocFormat 0 or 1 and
\* glyphDataFormat 0; a table that breaks one of these is rejected with an
\* error naming a field it breaks.
C18_HeadValidation ==
    (pc = "head::returned" /\ Len(input) >= 54) =>
        /\ result.kind = "Ok" => HeadViolations = {}
        /\ HeadViolations # {} =>
              /\ result.kind \in {"Parsing", "InvalidVersion"}
              /\ result.what \in HeadViolations

\* the platform and encoding ids that are to be decoded as UTF-16BE
Utf16Encodings == {<<0, 3>>, <<0, 4>>, <<3, 1>>, <<3, 10>>}

\* C19: Record::from_bytes decodes a name record as big-endian UTF-16 exactly
\* when (platformId, encodingId) is (0,3), (0,4), (3,1) or (3,10), for any
\* languageId; every other combination fails fast and gives no string.
C19_Utf16Encodings ==
    pc = "Record::returned" =>
        IF <<tables[1].platform, tables[1].encoding>> \in Utf16Encodings
        THEN /\ result.kind = "Ok"
             /\ parsed_tables[1].string = DecodeUtf16(Units(input))
        ELSE result.kind = "panic" /\ parsed_tables = <<>>

\* the decoder of glyf is called with loca decoded
GlyfRuns ==
    /\ DecoderRuns
    /\ Head(tables).tag = TAG_GLYF
    /\ Find(parsed_tables, "Loca") # {}

GlyfDecoded(host) ==
    parse_table(parsed_tables, Head(tables).tag,
                At(DecoderStart.pos, <<DecoderStart.readers[1], NewChecksumReader>>), host)

\* where the source stores glyph i, by loca; its numberOfContours, the count
\* of its points, and where its flags begin
StoredGlyph(i) ==
    DecoderStart.pos
        + AsUsize(LocaIndex(CHOOSE l \in Find(parsed_tables, "Loca") : TRUE, i)[1])

StoredContours(p) == I16(BE(SubSeq(input, p + 1, p + 2)))

StoredPoints(p) ==
    BE(SubSeq(input, p + 10 + 2 * StoredContours(p) - 1, p + 10 + 2 * StoredContours(p))) + 1

StoredFlagsAt(p) ==
    p + 10 + 2 * StoredContours(p) + 2
        + BE(SubSeq(input, p + 10 + 2 * StoredContours(p) + 1,
                    p + 10 + 2 * StoredContours(p) + 2))

\* the flags of n points stored from position q on, repeats expanded, and the
\* position after them
RECURSIVE StoredFlags(_, _, _)
StoredFlags(q, n, flags) ==
    IF Len(flags) >= n THEN [flags |-> flags, next |-> q]
    ELSE IF HasFlag(input[q + 1], REPEAT)
    THEN StoredFlags(q + 2, n,
                     flags \o [j \in 1..(1 + input[q + 2]) |-> input[q + 1] - REPEAT])
    ELSE StoredFlags(q + 1, n, Append(flags, input[q + 1]))

\* the x and y deltas of the glyph stored at p, one per point
XDeltas(p) ==
    ReadCoords(At(StoredFlags(StoredFlagsAt(p), StoredPoints(p), <<>>).next,
                  <<NewChecksumReader>>),
               StoredFlags(StoredFlagsAt(p), StoredPoints(p), <<>>).flags,
               X_SHORT, X_SIGN_SKIP, <<>>)

YDeltas(p) ==
    ReadCoords(XDeltas(p).st, StoredFlags(StoredFlagsAt(p), StoredPoints(p), <<>>).flags,
               Y_SHORT, Y_SIGN_SKIP, <<>>)

RECURSIVE SumTo(_, _)
SumTo(deltas, k) == IF k = 0 THEN 0 ELSE SumTo(deltas, k - 1) + deltas[k]

\* glyph i of the decoded table is a simple glyph
SimpleGlyph(loca, i) ==
    /\ LocaIndex(loca, i)[2] # ZeroU32
    /\ StoredContours(StoredGlyph(i)) > 0

\* C20: every point k of a simple glyph decoded by glyf::parse_table has x
\* the sum of the x deltas of the points 0..k and y the sum of their y deltas,
\* absolute coordinates and not the deltas.
C20_AbsoluteCoordinates ==
    GlyfRuns =>
        \A host \in ThisBuild :
            GlyfDecoded(host).res.kind = "Ok" =>
                \A i \in 0..(Len(GlyfDecoded(host).table.glyphs) - 1) :
                    SimpleGlyph(CHOOSE l \in Find(parsed_tables, "Loca") : TRUE, i) =>
                        \A k \in DOMAIN GlyfDecoded(host).table.glyphs[i + 1].points :
                            /\ GlyfDecoded(host).table.glyphs[i + 1].points[k][1]
                                   = SumTo(XDeltas(StoredGlyph(i)).vec, k)
                            /\ GlyfDecoded(host).table.glyphs[i + 1].points[k][2]
                                   = SumTo(YDeltas(StoredGlyph(i)).vec, k)

\* the loca table the decoder of glyf finds
FoundLoca == CHOOSE l \in Find(parsed_tables, "Loca") : TRUE

\* glyph i is stored with a header of numberOfContours < 0
CompositeGlyph(i) ==
    /\ LocaIndex(FoundLoca, i)[2] # ZeroU32
    /\ StoredGlyph(i) + 10 <= Len(input)
    /\ StoredContours(StoredGlyph(i)) < 0

\* C21: for every glyph index i, i = 0 included, whose header has
\* numContours < 0, glyf::parse_table stores a clone of glyph 0 at position i
\* and goes on without failing; the glyph list has one entry per glyph index.
C21_CompositeSubstituted ==
    GlyfRuns =>
        \A host \in ThisBuild :
            /\ CompositeGlyph(0) => GlyfDecoded(host).res.kind # "panic"
            /\ GlyfDecoded(host).res.kind = "Ok" =>
                  /\ Len(GlyfDecoded(host).table.glyphs) = LocaLen(FoundLoca)
                  /\ \A i \in 0..(LocaLen(FoundLoca) - 1) :
                        CompositeGlyph(i) =>
                            GlyfDecoded(host).table.glyphs[i + 1]
                                = GlyfDecoded(host).table.glyphs[1]

\* a slot of the map is free: its version is even
HasFreeSlot == \E i \in DOMAIN slots : slots[i].ver % 2 = 0

C22_Step ==
    status' = "ok" =>
        IF HasFreeSlot
        THEN /\ Len(slots') = Len(slots)
             /\ slots[next_free + 1].ver % 2 = 0
             /\ slots'[next_free + 1].ver % 2 = 1
        ELSE Len(slots') = Len(slots) + 1

\* C22: whenever a slot is free, push stores the value in the slot at the head
\* of the free list and does not grow the slot vector; a slot is appended only
\* when no slot is free.
C22_PushReusesFreeSlot == [][(\E value \in Values : Push(value)) => C22_Step]_vars

\* every slot has an odd version exactly when it holds a value
VersionParity == \A i \in DOMAIN slots : (slots[i].ver % 2 = 1) <=> (slots[i].kind = "value")

C23_Step ==
    /\ VersionParity'
    /\ (ret'.op = "push" /\ ret'.res = "key") => KeyVersion(ret'.key) % 2 = 1
    /\ \A i \in DOMAIN slots : slots'[i] # slots[i] => slots'[i].ver = slots[i].ver + 1

\* C23: in every state reached by push and try_pop with arbitrary keys, a
\* slot's version is odd exactly when the slot holds a live value, every key
\* push returns has an odd version, and each insert into a free slot and each
\* removal adds exactly one to the version of the slot.
C23_VersionDiscipline == [][C23_Step]_vars

\* the slots that hold a value (0-based indices)
Occupied(self) == { i \in 0..(Len(self.slots) - 1) : SlotAt(self, i).kind = "value" }

C24_Step ==
    /\ (ret'.op \in {"get", "get_mut", "try_pop"} /\ ret'.res = "Some")
         => KeyIndex(ret'.key) \in Occupied(Self)
    /\ (ret'.op = "push" /\ ret'.res = "key" /\ Len(slots') = Len(slots))
         => next_free \notin Occupied(Self)
    /\ ret'.op = "drop" => DropReads(Self) = Occupied(Self)
    /\ IterReads(Self) \subseteq Occupied(Self)

\* C24: no operation reads the content of a free slot as a value or the
\* content of an occupied slot as a next-free index: get, get_mut and try_pop
\* return the content of occupied slots only, push takes its next-free index
\* from a free slot only, the iterators visit occupied slots only, and drop
\* drops the values of exactly the occupied slots.
C24_UnionDiscipline == [][C24_Step]_vars

\* the records still to be processed are in ascending order of offset
AscendingOffsets ==
    \A i \in DOMAIN tables : \A j \in DOMAIN tables :
        i < j => tables[i].offset <= tables[j].offset

\* C25: open_font processes the table records in ascending order of their
\* offset, and whenever the decoder of a record is called the bytes consumed
\* from the file so far equal the offset the record declares.
C25_DecoderAtOffset ==
    (pc = "dispatch" /\ tables # <<>>) =>
        /\ AscendingOffsets
        /\ DecoderRuns => DecoderStart.readers[1].index = Head(tables).offset

\* the per-table ChecksumReader open_font makes for the next record
TableReader == At(DecoderStart.pos, <<DecoderStart.readers[1], NewChecksumReader>>)

\* the bytes b the per-table reader consumes before finish(): the decoder's
\* reads and the skip of the rest go through the same reader, so they are
\* the bytes of the file from the start of the table up to its length
TableBytes == SourceBytes(DecoderStart.pos, Head(tables).length)

\* the position after n bytes, or the rest of the source if it is shorter,
\* have been read through the reader in reads of at most four bytes
RECURSIVE Consumed(_, _)
Consumed(st, n) ==
    IF n = 0 \/ st.pos >= Len(input) THEN st
    ELSE Consumed(Skip(st, Min(n, 4)), n - Min(n, 4))

\* C27: after a ChecksumReader has consumed the byte sequence b, finish()
\* returns the wrapping sum of the big-endian 32-bit words of b padded with
\* zero bytes to a multiple of four, whatever bytes follow b in the source.
C27_FinishZeroPads ==
    DecoderRuns =>
        Finish(Consumed(TableReader, Head(tables).length)).checksum = WordSum(TableBytes)

\* what parse_table does with the per-table reader of the next record
Decoded(host) == parse_table(parsed_tables, Head(tables).tag, TableReader, host)

\* the per-table reader after tag_reader.skip(length - tag_reader.total_read())
\* where the difference does not panic; parsed is what the decoder did
AfterSkip(parsed) ==
    Skip(parsed.st, UsizeSub(Head(tables).length, parsed.st.readers[2].index,
                             overflow_checks).count).readers[2]

\* C26: the per-table reader handed to a decoder is scoped to the declared
\* length of the record: the decoder never consumes more than length bytes
\* through it, and after the skip that follows the decoder the per-table
\* reader has consumed exactly length bytes, whatever the decoder did.
C26_ReaderScopedToLength ==
    DecoderRuns =>
        \A host \in ThisBuild : \A parsed \in {Decoded(host)} :
            parsed.res.kind # "panic" =>
                /\ parsed.st.readers[2].index <= Head(tables).length
                /\ AfterSkip(parsed).index = Head(tables).length

\* a run-length flag stream expanded: a flag byte with the repeat bit and its
\* count N give N + 1 entries of the flag byte without the repeat bit, any
\* other flag byte gives itself; a repeated flag whose count is missing gives
\* nothing
RECURSIVE Expanded(_)
Expanded(bytes) ==
    IF bytes = <<>> THEN <<>>
    ELSE IF ~HasFlag(Head(bytes), REPEAT) THEN <<Head(bytes)>> \o Expanded(Tail(bytes))
    ELSE IF Len(bytes) = 1 THEN <<>>
    ELSE [j \in 1..(bytes[2] + 1) |-> Head(bytes) - REPEAT] \o Expanded(Tail(Tail(bytes)))

\* the flags loop run on the flags of the simple glyph stored at p
FlagsOf(p) == FlagsVec(At(StoredFlagsAt(p), <<NewChecksumReader>>), StoredPoints(p), <<>>)

\* glyph i is a simple glyph stored with its end points and instructions
FlagsStored(i) ==
    /\ SimpleGlyph(FoundLoca, i)
    /\ StoredFlagsAt(StoredGlyph(i)) <= Len(input)

\* C28: the flags loop of glyf::parse_table expands a flag byte with the
\* repeat bit and the count N to exactly N + 1 entries of the flag byte with
\* the repeat bit cleared, and ends with exactly numPoints = last end point
\* + 1 flags: never more, and no fewer unless the source ends.
C28_FlagExpansion ==
    GlyfRuns =>
        \A i \in 0..(LocaLen(FoundLoca) - 1) :
            FlagsStored(i) =>
                \A p \in {StoredGlyph(i)} : \A out \in {FlagsOf(p)} :
                    /\ out.vec = Expanded(SubSeq(input, StoredFlagsAt(p) + 1, out.st.pos))
                    /\ Len(out.vec) <= StoredPoints(p)
                    /\ out.ok => Len(out.vec) = StoredPoints(p)
                    /\ \A host \in ThisBuild : \A decoded \in {GlyfDecoded(host)} :
                           decoded.res.kind = "Ok" =>
                               decoded.table.glyphs[i + 1].points
                                   = Points(out.vec, XDeltas(p).vec, YDeltas(p).vec)

\* glyph i has a non-zero length in loca and is stored with numContours = 0,
\* its header and its instructions inside the source
NoContours(i) ==
    /\ LocaIndex(FoundLoca, i)[2] # ZeroU32
    /\ StoredGlyph(i) + 12 <= Len(input)
    /\ StoredContours(StoredGlyph(i)) = 0
    /\ StoredFlagsAt(StoredGlyph(i)) <= Len(input)

\* C29: a glyph with a non-zero length in loca and numContours = 0 does not
\* make glyf::parse_table fail or panic: the decoder goes on with no end
\* points and stores a glyph of no contours and no points.
C29_NoContoursGlyph ==
    GlyfRuns =>
        \A host \in ThisBuild : \A decoded \in {GlyfDecoded(host)} :
            /\ NoContours(0) => decoded.res.kind # "panic"
            /\ decoded.res.kind = "Ok" =>
                  \A i \in 0..(LocaLen(FoundLoca) - 1) :
                      NoContours(i) =>
                          /\ decoded.table.glyphs[i + 1].num_contours = 0
                          /\ decoded.table.glyphs[i + 1].end_pts = <<>>
                          /\ decoded.table.glyphs[i + 1].points = <<>>

\* the decoder of name is called
NameRuns == DecoderRuns /\ Head(tables).tag = TAG_NAME

\* the big-endian u16 stored at the bytes p + 1 and p + 2 of the source
StoredU16(p) == BE(SubSeq(input, p + 1, p + 2))

\* the bytes the source stores for NameRecord k of the name table at p: its
\* length bytes from its offset into the storage area
StoredString(p, k) ==
    SubSeq(input,
           p + StoredU16(p + 4) + StoredU16(p + 6 + 12 * (k - 1) + 10) + 1,
           p + StoredU16(p + 4) + StoredU16(p + 6 + 12 * (k - 1) + 10)
               + StoredU16(p + 6 + 12 * (k - 1) + 8))

\* C30: every record name::parse_table makes holds the big-endian UTF-16
\* decoding of the bytes the file stores for it, also when several records
\* name the same or overlapping bytes of the storage area, in whatever order
\* the records come.
C30_SharedStorage ==
    NameRuns =>
        \A host \in ThisBuild : \A decoded \in {Decoded(host)} :
            decoded.res.kind = "Ok" =>
                \A k \in DOMAIN decoded.table.records :
                    decoded.table.records[k].string
                        = DecodeUtf16(Units(StoredString(DecoderStart.pos, k)))

====
